---------------------------- MODULE Spec2Model ----------------------------
(***************************************************************************)
(* Promotion decision and approval pipeline of the SB-Masters Discord bot: *)
(* requirement evaluation and mastery -> rank resolution (/promote), the   *)
(* approval card posted to the queue channel (safe_queue_send), and the    *)
(* persistent approve / reject handlers (PersistentPromotionApproveView).  *)
(*                                                                         *)
(* Text is modelled as a sequence of one-character strings, so that the    *)
(* card rendering and the regular-expression parse are computed and not    *)
(* assumed to be inverse to each other.                                    *)
(***************************************************************************)
EXTENDS Integers, Sequences, FiniteSets, TLC

VARIABLES
    applied,         \* the updates the commands made, in the order they were written
    cmds,            \* the configuration commands in flight: each has written and awaits its response
    initial_config,  \* guild_config.json as it was before the first command
    guild_config,    \* guild_config.json: per guild the keys present and their values
    gateway,         \* the gateway events dispatched to the client and what handling each got
    startup,         \* setup_hook: the modules imported and set up, the event handlers bound to the client
    cooldown,        \* cooldown.py: one question put to remaining_cooldown and its answer
    verify,          \* the verification modal: who submits, what Hypixel links, how it ends
    sync,            \* /ranksync: the member's roles, the mapping and where the run stands
    pick,            \* the profiles SkyHelper returned and the one get_sb_stats selects
    retry,           \* one call of _fetch_json: its loop counter, requests and sleeps
    tasks,           \* the handler runs in flight together: where each stands
    \* ---- card rendering / parsing (SpecCard) ----
    username,        \* the handle given to /promote
    role_name,       \* the rank name resolved by /promote
    desc,            \* the rendered embed description
    parsed,          \* what the approve handler parses out of desc
    cardpc,          \* "input" -> "rendered" -> "parsed"
    \* ---- requirement evaluation / rank resolution (SpecEval) ----
    stats,           \* the record get_sb_stats returned
    reqs,            \* cfg_data["requirements"]
    rank_thresholds, \* {int(k): v for k, v in cfg_data["mastery_ranks"].items()}
    decision,        \* how step 2 and step 3 of /promote ended
    evalpc,          \* "input" -> "evaluated"
    \* ---- the guild, the bot process and the approval workflow (Spec) ----
    guild,           \* the guild's roles and the bot's own permissions
    member_roles,    \* member.roles of every guild member
    cfg,             \* guild_config.json: the guild's persisted settings
    env,             \* PROMOTION_MODE (normalised) and PROMOTION_BRIDGE_URL
    queue,           \* the messages of the promotion queue channel
    log,             \* the messages of the audit-log channel
    view_store,      \* the process's registered views: Persistent, or a message id
    epoch,           \* how often the process has been restarted
    acks,            \* per queue message: the resolutions acknowledged for it
    bridge_posts,    \* the answers to the POSTs issued to the promotion bridge
    bridge_request,  \* what the last /promote run posted to the bridge
    add_roles_calls, \* member.add_roles calls issued to the platform
    interaction,     \* the most recent interaction and how its handler ended
    events,          \* interactions handled so far
    \* ---- the welcome-DM throttle of on_member_join (SpecDM) ----
    now,             \* the event loop's clock, in units of 0.6 s
    _LAST_DM_TS,     \* the throttle timestamp
    _DM_LOCK,        \* the member whose _safe_dm call holds the lock, or None
    dmpc,            \* per joining member: where its _safe_dm call stands
    attempt,         \* per joining member: the loop variable of _safe_dm
    wake,            \* per joining member: when its current sleep ends (0: not asleep)
    dm_starts,       \* the times at which the last two member.send calls of
                     \* _safe_dm were started, in order
    dm_ok,           \* per joining member: what _safe_dm returned
    dm_attempts,     \* per joining member: how its member.send calls ended
                     \* and when the last one failed
    channels,        \* which of the guild's welcome channels resolve
    welcome_posts,   \* the public welcome posts attempted, with their result
    verifypc,        \* where the verification modal's DM to its user stands
    \* ---- the message texts of the promotion pipeline (SpecText) ----
    sent,            \* the last text handed to the platform as message content
    \* ---- the upstream lookups of utils/hypixel_api (SpecFetch) ----
    fetch            \* a lookup in progress: its caller, its position, the
                     \* requests issued per provider, and how it ended

cardVars == <<username, role_name, desc, parsed, cardpc>>
evalVars == <<stats, reqs, rank_thresholds, decision, evalpc>>

workVars == <<guild, member_roles, cfg, env, queue, log, view_store, epoch,
              acks, bridge_posts, bridge_request, add_roles_calls,
              interaction, events>>

dmVars == <<now, _LAST_DM_TS, _DM_LOCK, dmpc, attempt, wake, dm_starts, dm_ok,
            dm_attempts, channels, welcome_posts, verifypc>>

textVars == <<sent>>

fetchVars == <<fetch>>

\* the variables of the parts beside the promotion flow, part by part
concVars == <<tasks>>
retryVars == <<retry>>
pickVars == <<pick>>
syncVars == <<sync>>
verifyVars == <<verify, cooldown>>
startVars == <<startup, gateway>>
storeVars == <<guild_config, initial_config, cmds, applied>>

restVars == <<concVars, retryVars, pickVars, syncVars, verifyVars, startVars, storeVars>>

besideConc == <<retryVars, pickVars, syncVars, verifyVars, startVars, storeVars>>
besideRetry == <<concVars, pickVars, syncVars, verifyVars, startVars, storeVars>>
besidePick == <<concVars, retryVars, syncVars, verifyVars, startVars, storeVars>>
besideSync == <<concVars, retryVars, pickVars, verifyVars, startVars, storeVars>>
besideVerify == <<concVars, retryVars, pickVars, syncVars, startVars, storeVars>>
besideStart == <<concVars, retryVars, pickVars, syncVars, verifyVars, storeVars>>
besideStore == <<concVars, retryVars, pickVars, syncVars, verifyVars, startVars>>

\* the variables of the promotion flow, the welcome DM, the texts and the
\* lookups
flowVars == <<cardVars, evalVars, workVars, dmVars, textVars, fetchVars>>

vars == <<applied, cmds, initial_config, guild_config, gateway, startup, cooldown, verify, sync, pick, retry, tasks, username, role_name, desc, parsed, cardpc,
          stats, reqs, rank_thresholds, decision, evalpc,
          guild, member_roles, cfg, env, queue, log, view_store, epoch,
          acks, bridge_posts, bridge_request, add_roles_calls,
              interaction, events,
          now, _LAST_DM_TS, _DM_LOCK, dmpc, attempt, wake, dm_starts, dm_ok,
          dm_attempts, channels, welcome_posts, verifypc, sent, fetch>>

-----------------------------------------------------------------------------
(* Bounds of the model *)

\* longest handle enumerated character by character
MaxLen == 3

\* longest rank name enumerated character by character
MaxRankLen == 2

\* numeric stats range over 0..MaxStat
MaxStat == 2

\* every numeric requirement threshold of the enumerated requirement sets
ReqLevel == 1

\* mastery thresholds of the enumerated tables range over 0..MaxThreshold
MaxThreshold == 2

\* mastery counts range over 0..MaxMastery
MaxMastery == 3

\* interactions (commands and button presses) handled in one behaviour
MaxEvents == 2

\* process restarts in one behaviour
MaxRestarts == 1

\* last instant of the clock, in units of 0.6 s
MaxTime == 16

-----------------------------------------------------------------------------
(* Text helpers *)

Min(S) == CHOOSE x \in S : \A y \in S : x <= y

\* characters the enumerated handles and rank names are built from:
\* a plain letter, the markdown star, a blank and a line break
Alphabet == {"a", "*", " ", "\n"}

\* what Python's str.strip() and the regex class \s treat as whitespace
IsSpace(c) == c \in {" ", "\n", "\t", "\r"}

\* re.IGNORECASE: letters are compared after case folding
Lower(c) ==
    CASE c = "I" -> "i"
      [] c = "G" -> "g"
      [] c = "N" -> "n"
      [] c = "T" -> "t"
      [] c = "R" -> "r"
      [] OTHER -> c

\* all non-empty texts over Alphabet of length <= n
Texts(n) == UNION {[1..k -> Alphabet] : k \in 1..n}

\* the one-character ellipsis _trim appends
Ellipsis == "..."

\* limit of an embed description passed to _trim by /promote
DescLimit == 4096

\* _trim(s, limit): s if it fits, else its first limit-1 characters + ellipsis
_trim(s, limit) ==
    IF Len(s) <= limit THEN s ELSE Append(SubSeq(s, 1, limit - 1), Ellipsis)

\* str.strip(): drop leading and trailing whitespace
strip(s) ==
    LET keep == {i \in 1..Len(s) : ~IsSpace(s[i])}
    IN  IF keep = {} THEN <<>>
        ELSE SubSeq(s, Min(keep), CHOOSE j \in keep : \A k \in keep : k <= j)

-----------------------------------------------------------------------------
(* The card's descriptive text and its parse *)

IGN_LABEL == <<"I", "G", "N", ":">>
RANK_LABEL == <<"T", "a", "r", "g", "e", "t", " ", "R", "a", "n", "k", ":">>

\* variant: the handle rendered in italics (one star) instead of bold
DescriptionText_italic(u, r) ==
    IGN_LABEL \o <<" ", "*">> \o u \o <<"*", "\n">>
        \o RANK_LABEL \o <<" ", "*", "*">> \o r \o <<"*", "*">>

\* f"IGN: **{username}**\nTarget Rank: **{role_name}**"
DescriptionText(u, r) ==
    IGN_LABEL \o <<" ", "*", "*">> \o u \o <<"*", "*", "\n">>
        \o RANK_LABEL \o <<" ", "*", "*">> \o r \o <<"*", "*">>

\* the description of the embed /promote builds
RenderDescription(u, r) == _trim(DescriptionText(u, r), DescLimit)

NoMatch == [ok |-> FALSE, val |-> <<>>]

\* label matches s at position i, ignoring case
LabelAt(lbl, s, i) ==
    /\ i + Len(lbl) - 1 <= Len(s)
    /\ \A k \in 1..Len(lbl) : Lower(s[i + k - 1]) = Lower(lbl[k])

\* first position >= p of s holding a non-whitespace character (Len(s)+1 if none)
SkipSpace(s, p) ==
    LET rest == {q \in p..Len(s) : ~IsSpace(s[q])}
    IN  IF rest = {} THEN Len(s) + 1 ELSE Min(rest)

\* positions e at which the lazy group (.+?) starting at g can end: "**" stands
\* at e, the group g..e-1 is non-empty and holds no line break ('.' excludes \n)
GroupEnds(s, g) ==
    {e \in (g + 1)..(Len(s) - 1) :
        /\ s[e] = "*"
        /\ s[e + 1] = "*"
        /\ \A k \in g..(e - 1) : s[k] # "\n"}

\* <label>\s*\*\*(.+?)\*\* anchored at position i: where group 1 starts, 0 if
\* the pattern does not match there
GroupStartAt(lbl, s, i) ==
    IF ~LabelAt(lbl, s, i) THEN 0
    ELSE LET q == SkipSpace(s, i + Len(lbl))
         IN  IF q + 1 <= Len(s) /\ s[q] = "*" /\ s[q + 1] = "*"
                    /\ GroupEnds(s, q + 2) # {}
             THEN q + 2 ELSE 0

\* pattern.search(s): the leftmost match; group(1) is the shortest group there
Search(lbl, s) ==
    LET starts == {i \in 1..Len(s) : GroupStartAt(lbl, s, i) # 0}
    IN  IF starts = {} THEN NoMatch
        ELSE LET g == GroupStartAt(lbl, s, Min(starts))
             IN  [ok |-> TRUE, val |-> SubSeq(s, g, Min(GroupEnds(s, g)) - 1)]

\* IGN_PATTERN.search(desc) / RANK_PATTERN.search(desc)
IGN_PATTERN(s) == Search(IGN_LABEL, s)
RANK_PATTERN(s) == Search(RANK_LABEL, s)

\* m.group(1).strip() of a match
Group1Stripped(m) == strip(m.val)

\* the handlers' parse of a description: ign and role_name, each None on no match
ParseDescription(s) ==
    LET m_ign == IGN_PATTERN(s)
        m_rank == RANK_PATTERN(s)
    IN  [ign  |-> IF m_ign.ok THEN [ok |-> TRUE, val |-> Group1Stripped(m_ign)]
                  ELSE NoMatch,
         rank |-> IF m_rank.ok THEN [ok |-> TRUE, val |-> Group1Stripped(m_rank)]
                  ELSE NoMatch]

-----------------------------------------------------------------------------
(* /promote, step 2: requirement checks; step 3: mastery -> rank *)

Max(S) == CHOOSE x \in S : \A y \in S : y <= x

\* the entry a failing check appends to `failed`: its text and the threshold
\* formatted into it
FailNetworth(rq) == <<"Networth <", rq.networth>>
FailSbLevel(rq) == <<"SB Level <", rq.sb_level>>
FailSkillAvg(rq) == <<"Skill Avg <", rq.skill_avg>>
FailSlayerXp(rq) == <<"Slayer XP <", rq.slayer_xp>>
FailCataLvl(rq) == <<"Cata Lvl <", rq.cata_lvl>>
FailRift(rq) == <<"Rift charms incomplete", 0>>
FailFarmWeight(rq) == <<"Farm Weight <", rq.farm_weight>>

\* variant: an if / elif chain, which stops at the first failing check
CheckRequirements_elif(st, rq) ==
    IF st.networth < rq.networth THEN <<FailNetworth(rq)>>
    ELSE IF st.sb_level < rq.sb_level THEN <<FailSbLevel(rq)>>
    ELSE IF st.skill_avg < rq.skill_avg THEN <<FailSkillAvg(rq)>>
    ELSE IF st.slayer_xp < rq.slayer_xp THEN <<FailSlayerXp(rq)>>
    ELSE IF st.cata_lvl < rq.cata_lvl THEN <<FailCataLvl(rq)>>
    ELSE IF rq.rift_charms = "all" /\ ~st.rift_all_charms THEN <<FailRift(rq)>>
    ELSE IF st.farm_weight < rq.farm_weight THEN <<FailFarmWeight(rq)>>
    ELSE <<>>

\* the seven `if ...: failed.append(...)` statements, in program order
CheckRequirements(st, rq) ==
    LET f0 == <<>>
        f1 == IF st.networth < rq.networth THEN Append(f0, FailNetworth(rq)) ELSE f0
        f2 == IF st.sb_level < rq.sb_level THEN Append(f1, FailSbLevel(rq)) ELSE f1
        f3 == IF st.skill_avg < rq.skill_avg THEN Append(f2, FailSkillAvg(rq)) ELSE f2
        f4 == IF st.slayer_xp < rq.slayer_xp THEN Append(f3, FailSlayerXp(rq)) ELSE f3
        f5 == IF st.cata_lvl < rq.cata_lvl THEN Append(f4, FailCataLvl(rq)) ELSE f4
        f6 == IF rq.rift_charms = "all" /\ ~st.rift_all_charms
              THEN Append(f5, FailRift(rq)) ELSE f5
        f7 == IF st.farm_weight < rq.farm_weight
              THEN Append(f6, FailFarmWeight(rq)) ELSE f6
    IN  f7

\* variant: sorted(...) without reverse=True, the thresholds least first
RECURSIVE SortedReverse_ascending(_)
SortedReverse_ascending(S) ==
    IF S = {} THEN <<>>
    ELSE <<Min(S)>> \o SortedReverse_ascending(S \ {Min(S)})

\* sorted(rank_thresholds.items(), reverse=True): the thresholds, greatest first
\* (the keys of a dict are distinct, so the rank never decides the order)
RECURSIVE SortedReverse(_)
SortedReverse(S) ==
    IF S = {} THEN <<>> ELSE <<Max(S)>> \o SortedReverse(S \ {Max(S)})

\* variant: role_name assigned on every iteration and only the break guarded,
\* so a loop that runs out leaves the last rank of the order
FirstReached_lastKept(order, table, mastery_count) ==
    LET hits == {i \in 1..Len(order) : mastery_count >= order[i]}
    IN  IF order = <<>> THEN NoMatch
        ELSE IF hits = {} THEN [ok |-> TRUE, val |-> table[order[Len(order)]]]
        ELSE [ok |-> TRUE, val |-> table[order[Min(hits)]]]

\* the for loop with its break: the rank of the first threshold, in the given
\* order, that mastery_count reaches; None when the loop runs out
RECURSIVE FirstReached(_, _, _)
FirstReached(order, table, mastery_count) ==
    IF order = <<>> THEN NoMatch
    ELSE IF mastery_count >= Head(order)
         THEN [ok |-> TRUE, val |-> table[Head(order)]]
         ELSE FirstReached(Tail(order), table, mastery_count)

\* step 3: role_name after the loop (rank names are non-empty, so
\* `not role_name` is `role_name is None`)
SelectRank(table, mastery_count) ==
    FirstReached(SortedReverse(DOMAIN table), table, mastery_count)

\* steps 2 and 3 of /promote: the requirements-not-met response, the
\* no-rank-mapping response, or the rank the request is made for
Evaluate(st, rq, table) ==
    LET failed == CheckRequirements(st, rq)
        sel == SelectRank(table, st.masteries)
    IN  IF failed # <<>>
        THEN [kind |-> "RequirementsNotMet", failed |-> failed, rank |-> <<>>]
        ELSE IF ~sel.ok
        THEN [kind |-> "NoRankMapping", failed |-> <<>>, rank |-> <<>>]
        ELSE [kind |-> "Accepted", failed |-> <<>>, rank |-> sel.val]

-----------------------------------------------------------------------------
(* The guild, its members and the messages of its channels *)

RankMember == <<"M", "e", "m", "b", "e", "r">>
RankElite == <<"E", "l", "i", "t", "e">>
RankLegend == <<"L", "e", "g", "e", "n", "d">>
RankNames == {RankMember, RankElite, RankLegend}

Members == {"alice", "bob"}
None == "None"

\* the members who pass is_guild_admin, the check in front of /promote
GuildAdmins == {"bob"}

\* position of a role in the guild's hierarchy (Role.__ge__ compares it)
RolePosition(r) ==
    CASE r = RankMember -> 1
      [] r = RankElite -> 2
      [] OTHER -> 3

\* interaction.user.guild_permissions of whoever presses a button
Permissions == [manage_roles : BOOLEAN, administrator : BOOLEAN]

\* message content is a sequence of parts: user mentions and plain text
Mention(m) == [part |-> "mention", user |-> m]
Plain(t) == [part |-> "text", user |-> t]

\* Message.mentions: the platform lists the users mentioned in the content
\* (every send here allows the mention of `who`); an embed adds no mention
MentionsOf(content) ==
    LET isMention(pt) == pt.part = "mention"
        ms == SelectSeq(content, isMention)
    IN  [k \in 1..Len(ms) |-> ms[k].user]

\* a message as the platform stores it and hands it back in interaction.message;
\* posted_by and request_for say where the message comes from and which member
\* its request is for: no handler reads them
Message(content, embeds, view, origin, who) ==
    [content |-> content, embeds |-> embeds, view |-> view,
     mentions |-> MentionsOf(content), posted_by |-> origin, request_for |-> who]

\* view: the message carries the promo:approve / promo:reject buttons
HasControls(msg) == msg.view

\* the registration made by add_view(PersistentPromotionApproveView()): it
\* answers the custom ids promo:approve / promo:reject on any message
Persistent == 0

\* Client.setup_hook and getroles.setup: both call add_view at startup
StartupViews == {Persistent}

\* whether the process routes a press of message i's buttons to the handlers
Dispatchable(i) ==
    /\ i \in 1..Len(queue)
    /\ HasControls(queue[i])
    /\ (Persistent \in view_store \/ i \in view_store)

\* guild.get_channel(int(cfg.get("log_channel_id") or 0))
log_ch == cfg.log_channel_id # None

-----------------------------------------------------------------------------
(* The approve and reject handlers of PersistentPromotionApproveView *)

Unknown == <<"U", "n", "k", "n", "o", "w", "n">>

\* how a handler run ended and what it did on the way
\*   kind    the response sent, or "raised" when an exception left the handler
\*   called  member.add_roles was called;  granted  and it added the role
\*   logged  an audit-log entry was posted
Outcome(kind, target, role, ign, called, granted, logged) ==
    [kind |-> kind, target |-> target, role |-> role, ign |-> ign,
     called |-> called, granted |-> granted, logged |-> logged]

\* the steps of approve after the hierarchy checks: assign the role unless it
\* is already held, post the audit entry, acknowledge
\*   roles       every member's roles (target_member.roles)
\*   lc          whether the guild's config names a log channel
\*   add_result  the platform's answer to add_roles, were it called
\*   log_result  the platform's answer to a post in the log channel
AssignLogAck(roles, lc, target, role, ign, add_result, log_result) ==
    LET needed == role \notin roles[target]
    IN  IF needed /\ add_result = "Forbidden"
        THEN Outcome("CannotEditMember", target, role, ign, TRUE, FALSE, FALSE)
        ELSE IF needed /\ add_result = "HTTPException"
        THEN Outcome("raised", target, role, ign, TRUE, FALSE, FALSE)
        ELSE IF lc /\ log_result = "HTTPException"
        THEN Outcome("raised", target, role, ign, needed, needed, FALSE)
        ELSE Outcome("Approved", target, role, ign, needed, needed, lc)

\* variant: only a role above the bot's top role is refused
AtOrAboveTopRole_above(g, role) == RolePosition(role) > g.bot_top

\* role >= me.top_role
AtOrAboveTopRole(g, role) == RolePosition(role) >= g.bot_top

\* approve after its permission check: the card is parsed, the role resolved
\* and checked against the bot's permissions, then assigned, logged, acknowledged
\*   g  interaction.guild: its roles, the bot's permissions and top role
ApproveAuthorized(g, roles, lc, msg, add_result, log_result) ==
    IF msg.embeds = <<>>
    THEN Outcome("NoEmbed", None, <<>>, <<>>, FALSE, FALSE, FALSE)
    ELSE LET pr == ParseDescription(msg.embeds[1].description)
         IN  IF ~pr.ign.ok \/ ~pr.rank.ok
             THEN Outcome("MissingFields", None, <<>>, <<>>, FALSE, FALSE, FALSE)
             ELSE IF msg.mentions = <<>>
             THEN Outcome("NoMention", None, pr.rank.val, pr.ign.val,
                          FALSE, FALSE, FALSE)
             ELSE LET target == msg.mentions[1]
                      role == pr.rank.val
                      ign == pr.ign.val
                  IN  IF role \notin g.roles
                      THEN Outcome("RoleNotFound", target, role, ign,
                                   FALSE, FALSE, FALSE)
                      ELSE IF ~g.bot_manage_roles
                      THEN Outcome("BotNeedsManageRoles", target, role, ign,
                                   FALSE, FALSE, FALSE)
                      ELSE IF AtOrAboveTopRole(g, role)
                      THEN Outcome("RoleTooHigh", target, role, ign,
                                   FALSE, FALSE, FALSE)
                      ELSE AssignLogAck(roles, lc, target, role, ign,
                                        add_result, log_result)

\* variant: the handler without its permission check
ApproveOutcome_noGate(g, roles, lc, msg, p, add_result, log_result) ==
    ApproveAuthorized(g, roles, lc, msg, add_result, log_result)

\* approve(interaction, button) on message msg pressed by a user with
\* guild_permissions p, in guild g whose members hold `roles`
ApproveOutcome(g, roles, lc, msg, p, add_result, log_result) ==
    IF ~(p.manage_roles \/ p.administrator)
    THEN Outcome("NeedManageRoles", None, <<>>, <<>>, FALSE, FALSE, FALSE)
    ELSE ApproveAuthorized(g, roles, lc, msg, add_result, log_result)

\* `ign or 'Unknown'` / `role_name or 'Unknown'`: None and "" both read Unknown
OrUnknown(m) == IF m.ok /\ m.val # <<>> THEN m.val ELSE Unknown

\* reject(interaction, button) on message msg pressed by a user with
\* guild_permissions p
RejectOutcome(lc, msg, p, log_result) ==
    IF ~(p.manage_roles \/ p.administrator)
    THEN Outcome("NeedManageRoles", None, <<>>, <<>>, FALSE, FALSE, FALSE)
    ELSE LET pr == IF msg.embeds = <<>> THEN [ign |-> NoMatch, rank |-> NoMatch]
                   ELSE ParseDescription(msg.embeds[1].description)
             ign == OrUnknown(pr.ign)
             role == OrUnknown(pr.rank)
         IN  IF lc /\ log_result = "HTTPException"
             THEN Outcome("raised", None, role, ign, FALSE, FALSE, FALSE)
             ELSE Outcome("Rejected", None, role, ign, FALSE, FALSE, lc)

\* an entry of the audit-log channel
LogEntry(kind, target, role, ign, by, card) ==
    [kind |-> kind, target |-> target, role |-> role, ign |-> ign,
     by |-> by, card |-> card]

\* the record of an interaction: who invoked what on which message, and how
\* the handler ended
Interaction(handler, card, user, p, out) ==
    [handler |-> handler, card |-> card, user |-> user, perms |-> p,
     kind |-> out.kind, target |-> out.target, role |-> out.role,
     ign |-> out.ign]

\* what the handler answered, as the reviewer reads it
Ack(out) == [kind |-> out.kind, target |-> out.target, role |-> out.role,
             ign |-> out.ign]

SendResults == {"ok", "HTTPException"}
AddResults == {"ok", "Forbidden", "HTTPException"}

\* the platform answers only the calls a handler makes: the answers to draw
\* for a run that, all calls succeeding, would end as `smooth`
AddAnswers(smooth) == IF smooth.called THEN AddResults ELSE {"ok"}
LogAnswers(smooth) == IF smooth.logged THEN SendResults ELSE {"ok"}

\* variant: approve hands the role to the reviewer who pressed the button
Approve_grantsReviewer(i, user, p) ==
    /\ events < MaxEvents
    /\ Dispatchable(i)
    /\ \E smooth \in {ApproveOutcome(guild, member_roles, log_ch, queue[i], p,
                                    "ok", "ok")} :
       \E add_result \in AddAnswers(smooth), log_result \in LogAnswers(smooth) :
       \E out \in {ApproveOutcome(guild, member_roles, log_ch, queue[i], p,
                                 add_result, log_result)} :
           /\ member_roles' =
                IF out.granted
                THEN [member_roles EXCEPT ![user] = @ \cup {out.role}]
                ELSE member_roles
           /\ add_roles_calls' = add_roles_calls + (IF out.called THEN 1 ELSE 0)
           /\ log' = IF out.logged
                     THEN Append(log, LogEntry("Approved", out.target, out.role,
                                               out.ign, user, i))
                     ELSE log
           /\ acks' = IF out.kind = "Approved"
                      THEN [acks EXCEPT ![i] = Append(@, Ack(out))]
                      ELSE acks
           /\ interaction' = Interaction("approve", i, user, p, out)
    /\ events' = events + 1
    /\ UNCHANGED <<guild, cfg, env, queue, view_store, epoch, bridge_posts,
                   bridge_request>>
    /\ UNCHANGED <<restVars, cardVars, evalVars, dmVars, textVars, fetchVars>>

\* a press of promo:approve on message i by `user`, whose permissions are p
Approve(i, user, p) ==
    /\ events < MaxEvents
    /\ Dispatchable(i)
    /\ \E smooth \in {ApproveOutcome(guild, member_roles, log_ch, queue[i], p,
                                    "ok", "ok")} :
       \E add_result \in AddAnswers(smooth), log_result \in LogAnswers(smooth) :
       \E out \in {ApproveOutcome(guild, member_roles, log_ch, queue[i], p,
                                 add_result, log_result)} :
           /\ member_roles' =
                IF out.granted
                THEN [member_roles EXCEPT ![out.target] = @ \cup {out.role}]
                ELSE member_roles
           /\ add_roles_calls' = add_roles_calls + (IF out.called THEN 1 ELSE 0)
           /\ log' = IF out.logged
                     THEN Append(log, LogEntry("Approved", out.target, out.role,
                                               out.ign, user, i))
                     ELSE log
           /\ acks' = IF out.kind = "Approved"
                      THEN [acks EXCEPT ![i] = Append(@, Ack(out))]
                      ELSE acks
           /\ interaction' = Interaction("approve", i, user, p, out)
    /\ events' = events + 1
    /\ UNCHANGED <<guild, cfg, env, queue, view_store, epoch, bridge_posts,
                   bridge_request>>
    /\ UNCHANGED <<restVars, cardVars, evalVars, dmVars, textVars, fetchVars>>

\* variant: reject hands the card's role to the member it mentions
Reject_grants(i, user, p) ==
    /\ events < MaxEvents
    /\ Dispatchable(i)
    /\ \E out \in {RejectOutcome(log_ch, queue[i], p, "ok")} :
           /\ log' = IF out.logged
                     THEN Append(log, LogEntry("Rejected", None, out.role,
                                               out.ign, user, i))
                     ELSE log
           /\ acks' = [acks EXCEPT ![i] = Append(@, Ack(out))]
           /\ interaction' = Interaction("reject", i, user, p, out)
           /\ member_roles' =
                 IF queue[i].mentions # <<>>
                 THEN [member_roles EXCEPT ![queue[i].mentions[1]] =
                                               @ \cup {out.role}]
                 ELSE member_roles
    /\ events' = events + 1
    /\ UNCHANGED <<guild, cfg, env, queue, view_store, epoch,
                   bridge_posts, bridge_request, add_roles_calls>>
    /\ UNCHANGED <<restVars, cardVars, evalVars, dmVars, textVars, fetchVars>>

\* a press of promo:reject on message i by `user`, whose permissions are p
Reject(i, user, p) ==
    /\ events < MaxEvents
    /\ Dispatchable(i)
    /\ \E smooth \in {RejectOutcome(log_ch, queue[i], p, "ok")} :
       \E log_result \in LogAnswers(smooth) :
       \E out \in {RejectOutcome(log_ch, queue[i], p, log_result)} :
           /\ log' = IF out.logged
                     THEN Append(log, LogEntry("Rejected", None, out.role,
                                               out.ign, user, i))
                     ELSE log
           /\ acks' = IF out.kind = "Rejected"
                      THEN [acks EXCEPT ![i] = Append(@, Ack(out))]
                      ELSE acks
           /\ interaction' = Interaction("reject", i, user, p, out)
    /\ events' = events + 1
    /\ UNCHANGED <<guild, member_roles, cfg, env, queue, view_store, epoch,
                   bridge_posts, bridge_request, add_roles_calls>>
    /\ UNCHANGED <<restVars, cardVars, evalVars, dmVars, textVars, fetchVars>>

-----------------------------------------------------------------------------
(* /promote and safe_queue_send *)

\* PROMOTION_MODE as found in the environment (None: unset)
RawModes == {None, "discord-only", "auto-mc", " Auto-MC ", "manual"}

\* (os.getenv("PROMOTION_MODE") or "discord-only").strip().lower()
StripLower(raw) ==
    CASE raw = None -> "discord-only"
      [] raw = " Auto-MC " -> "auto-mc"
      [] OTHER -> raw

VALID_MODES == {"discord-only", "auto-mc"}

\* variant: the VALID_MODES test is skipped
PROMOTION_MODE_unchecked(raw) == StripLower(raw)

\* the module-level PROMOTION_MODE after the VALID_MODES test
PROMOTION_MODE(raw) ==
    IF StripLower(raw) \notin VALID_MODES THEN "discord-only" ELSE StripLower(raw)

\* config/role_requirements.json as load_role_config returns it
ConfigRequirements ==
    [networth |-> ReqLevel, sb_level |-> ReqLevel, skill_avg |-> ReqLevel,
     slayer_xp |-> ReqLevel, cata_lvl |-> ReqLevel, rift_charms |-> "all",
     farm_weight |-> ReqLevel]
ConfigRanks == [t \in {1, 2} |-> IF t = 1 THEN RankMember ELSE RankElite]

\* what get_sb_stats can return to /promote
PromoteStats ==
    {st \in {[networth |-> v, sb_level |-> v, skill_avg |-> v, slayer_xp |-> v,
              cata_lvl |-> v, rift_all_charms |-> TRUE, farm_weight |-> v,
              masteries |-> m] : v \in {ReqLevel - 1, ReqLevel}, m \in 0..2} :
        st.networth < ReqLevel => st.masteries = 0}

\* get_sb_stats raising, or returning one of PromoteStats
FetchResults ==
    {[ok |-> FALSE, stats |-> CHOOSE st \in PromoteStats : TRUE]}
        \cup {[ok |-> TRUE, stats |-> st] : st \in PromoteStats}

Steve == <<"S", "t", "e", "v", "e">>
PromoteHandles == {Steve}

\* the local state a /promote run threads through its platform calls
\*   q, lg   the queue and log channels;  raised  an exception is propagating
\*   ret     the value the last call returned (a message id, 0 for None)
Run(q, lg) == [q |-> q, lg |-> lg, raised |-> FALSE, ret |-> 0]

\* log_ch.send(...) where the caller does not catch: skipped without a log
\* channel, raises when the platform refuses the post
LogPost(run, entry, log_result) ==
    IF run.raised \/ ~log_ch THEN run
    ELSE IF log_result = "ok" THEN [run EXCEPT !.lg = Append(@, entry)]
    ELSE [run EXCEPT !.raised = TRUE]

\* _send_with_log(op, queue.send(...), log_ch): the message on success; on an
\* HTTPException the failure is posted to log_ch, if any, and None returned
_send_with_log(run, op, msg, result, log_result) ==
    IF run.raised THEN run
    ELSE IF result = "ok"
    THEN [run EXCEPT !.q = Append(@, msg), !.ret = Len(run.q) + 1]
    ELSE [LogPost(run, LogEntry(op, None, <<>>, <<>>, None, 0), log_result)
            EXCEPT !.ret = 0]

\* safe_queue_send(queue, who, embed, view, log_ch): the rich card with empty
\* content, on failure the text-only note, then the separate mention ping;
\* returns the card or note message (None if both failed)
\*   r1, r2, r3  the platform's answers to the three sends
safe_queue_send(run, who, embed, r1, r2, r3, log_result) ==
    LET s1 == _send_with_log(run, "queue.send(embed+view) failed",
                  Message(<<>>, <<embed>>, TRUE, "promote", who), r1, log_result)
        s2 == IF s1.ret = 0
              THEN _send_with_log(s1, "queue.send(text-only) failed",
                       Message(<<Mention(who), Plain("request created")>>,
                               <<>>, FALSE, "promote", who),
                       r2, log_result)
              ELSE s1
        s3 == _send_with_log(s2, "queue.send(mention) failed",
                  Message(<<Mention(who)>>, <<>>, FALSE, "promote", who),
                  r3, log_result)
    IN  [s3 EXCEPT !.ret = s2.ret]

\* the discord-only branch of /promote after the channel checks
\* returns the run and whether the rich card (with its view) was posted
QueueRequest(user, who, handle, rank, r1, r2, r3, log_result) ==
    LET e == [description |-> RenderDescription(handle, rank)]
        s == safe_queue_send(Run(queue, log), who, e, r1, r2, r3, log_result)
    IN  IF s.ret # 0
        THEN [LogPost(s, LogEntry("Queued", who, rank, handle, user, s.ret),
                      log_result) EXCEPT !.ret = s.ret]
        ELSE s

\* messages of q that carry a view: send(view=...) stores the view under the
\* message id
ViewsSent(q) == {i \in 1..Len(q) : q[i].view /\ q[i].posted_by = "promote"}

\* variant: a failed POST is sent a second time
BridgeRequest_retries(user, target_member, handle, rank, bridge, add_result, log_result) ==
    LET ok == bridge = "2xx"
        s1 == LogPost(Run(queue, log),
                      LogEntry(IF ok THEN "Auto-MC Promote"
                               ELSE "Auto-MC Promote FAILED",
                               None, rank, handle, user, 0), log_result)
        mirror == ok /\ ~s1.raised /\ rank \in guild.roles
        s2 == IF mirror /\ add_result = "Forbidden"
              THEN LogPost(s1, LogEntry("Could not assign", target_member, rank,
                                        <<>>, None, 0), log_result)
              ELSE IF mirror /\ add_result = "HTTPException"
              THEN [s1 EXCEPT !.raised = TRUE]
              ELSE s1
    IN  [run |-> s2, ok |-> ok, called |-> mirror,
         granted |-> mirror /\ add_result = "ok",
         posts |-> IF ok THEN <<bridge>> ELSE <<bridge, bridge>>]

\* the auto-mc branch of /promote after the bridge URL check
\*   bridge  "2xx", "non2xx" or "error" (network failure, timeout)
BridgeRequest(user, target_member, handle, rank, bridge, add_result, log_result) ==
    LET ok == bridge = "2xx"
        s1 == LogPost(Run(queue, log),
                      LogEntry(IF ok THEN "Auto-MC Promote"
                               ELSE "Auto-MC Promote FAILED",
                               None, rank, handle, user, 0), log_result)
        mirror == ok /\ ~s1.raised /\ rank \in guild.roles
        s2 == IF mirror /\ add_result = "Forbidden"
              THEN LogPost(s1, LogEntry("Could not assign", target_member, rank,
                                        <<>>, None, 0), log_result)
              ELSE IF mirror /\ add_result = "HTTPException"
              THEN [s1 EXCEPT !.raised = TRUE]
              ELSE s1
    IN  [run |-> s2, ok |-> ok, called |-> mirror,
         granted |-> mirror /\ add_result = "ok", posts |-> <<bridge>>]

NoPermissions == [manage_roles |-> FALSE, administrator |-> FALSE]

\* str(interaction.guild_id)
GuildId == "guild-id"

\* the JSON body of the bridge request
payload(user, handle, rank) ==
    [action |-> "promote",
     ign |-> handle,
     target_rank |-> rank,
     requested_by_discord_id |-> <<"id", user>>,
     requested_by_discord_tag |-> <<"tag", user>>,
     guild_id |-> GuildId]

\* the headers of the bridge request, as name-value pairs
headers(token) ==
    IF token # None /\ token # ""
    THEN {<<"Authorization", <<"Bearer", token>>>>}
    ELSE {}

\* session.post(bridge_url, json=payload, headers=headers, timeout=15) and
\* how the run took its answer
session_post(url, json, hdrs, resp, ok) ==
    [method |-> "POST", url |-> url, json |-> json, headers |-> hdrs,
     raised |-> resp.raised, status |-> resp.status, ok |-> ok]

\* the run posted nothing to the bridge
NoRequest ==
    [method |-> None, url |-> None, json |-> [action |-> None], headers |-> {},
     raised |-> FALSE, status |-> 0, ok |-> FALSE]

\* variant: a missing setting goes unnoticed
NotSet_unnoticed(v) == FALSE

\* `if not queue_id` / `if not bridge_url`
NotSet(v) == v = None

\* variant: every run writes an audit entry, whatever its end
PromoteEnds_auditsEveryRun(user, kind, who, rank, handle, run, views, posts, called, granted, request) ==
    /\ queue' = run.q
    /\ log' = Append(run.lg, LogEntry(kind, who, rank, handle, user, 0))
    /\ acks' = [i \in 1..Len(run.q) |-> IF i <= Len(queue) THEN acks[i] ELSE <<>>]
    /\ view_store' = view_store \cup views
    /\ bridge_posts' = bridge_posts \o posts
    /\ bridge_request' = request
    /\ add_roles_calls' = add_roles_calls + (IF called THEN 1 ELSE 0)
    /\ member_roles' = IF granted
                       THEN [member_roles EXCEPT ![who] = @ \cup {rank}]
                       ELSE member_roles
    /\ interaction' =
          Interaction("promote", run.ret, user, NoPermissions,
                      Outcome(IF run.raised THEN "raised" ELSE kind,
                              who, rank, handle, called, granted, FALSE))

\* the changes a /promote run makes and the response it ends with
PromoteEnds(user, kind, who, rank, handle, run, views, posts, called, granted, request) ==
    /\ queue' = run.q
    /\ log' = run.lg
    /\ acks' = [i \in 1..Len(run.q) |-> IF i <= Len(queue) THEN acks[i] ELSE <<>>]
    /\ view_store' = view_store \cup views
    /\ bridge_posts' = bridge_posts \o posts
    /\ bridge_request' = request
    /\ add_roles_calls' = add_roles_calls + (IF called THEN 1 ELSE 0)
    /\ member_roles' = IF granted
                       THEN [member_roles EXCEPT ![who] = @ \cup {rank}]
                       ELSE member_roles
    /\ interaction' =
          Interaction("promote", run.ret, user, NoPermissions,
                      Outcome(IF run.raised THEN "raised" ELSE kind,
                              who, rank, handle, called, granted, FALSE))

BridgeResults == {"2xx", "non2xx", "error"}

\* the statuses the bridge answers with, on both sides of the edges of 2xx
BridgeStatuses == {199, 200, 204, 299, 300, 404, 500}

\* how the POST ends: a response with a status, or an exception (network
\* failure, timeout) before there is one
BridgeAnswers ==
    {[raised |-> TRUE, status |-> 0]}
        \cup {[raised |-> FALSE, status |-> st] : st \in BridgeStatuses}

\* `ok = (200 <= resp.status < 300)`; ok stays False when the POST raises
BridgeResult(resp) ==
    IF resp.raised THEN "error"
    ELSE IF 200 <= resp.status /\ resp.status < 300 THEN "2xx"
    ELSE "non2xx"

\* /promote username [member], invoked by a user who passes is_guild_admin.
\* What the outside world answers is chosen where the handler asks:
\*   fetched         whether get_sb_stats returned, and the record it returned
\*   channel_ok      the configured queue channel is a text channel of the guild
\*   r1, r2, r3      the platform's answers to the three queue posts
\*   bridge          the bridge's answer to the POST
\*   add_result      the platform's answer to add_roles
\*   log_result      the platform's answer to a post in the log channel
promote(user, handle, member) ==
    /\ user \in GuildAdmins
    /\ events < MaxEvents
    /\ events' = events + 1
    /\ UNCHANGED <<guild, cfg, env, epoch>>
    /\ UNCHANGED <<restVars, cardVars, evalVars, dmVars, textVars, fetchVars>>
    /\ \E fetched \in FetchResults :
        LET idle == Run(queue, log)
            who == IF member # None THEN member ELSE user
            dec == Evaluate(fetched.stats, ConfigRequirements, ConfigRanks)
        IN  IF ~fetched.ok
            THEN PromoteEnds(user, "StatsError", None, <<>>, handle, idle,
                             {}, <<>>, FALSE, FALSE, NoRequest)
            ELSE IF dec.kind = "RequirementsNotMet"
            THEN PromoteEnds(user, "RequirementsNotMet", None, <<>>, handle,
                             idle, {}, <<>>, FALSE, FALSE, NoRequest)
            ELSE IF dec.kind = "NoRankMapping"
            THEN PromoteEnds(user, "NoRankMapping", None, <<>>, handle, idle,
                             {}, <<>>, FALSE, FALSE, NoRequest)
            ELSE IF env.mode = "discord-only"
            THEN IF NotSet(cfg.promotion_channel_id)
                 THEN PromoteEnds(user, "NoQueueChannel", who, dec.rank, handle,
                                  idle, {}, <<>>, FALSE, FALSE, NoRequest)
                 ELSE \E channel_ok \in BOOLEAN :
                      IF ~channel_ok
                      THEN PromoteEnds(user, "ChannelInvalid", who, dec.rank,
                                       handle, idle, {}, <<>>, FALSE, FALSE, NoRequest)
                      ELSE \E r1 \in SendResults, r2 \in SendResults,
                              r3 \in SendResults, log_result \in SendResults :
                           \E run \in {QueueRequest(user, who, handle, dec.rank,
                                                    r1, r2, r3, log_result)} :
                               PromoteEnds(user, "Queued", who, dec.rank, handle,
                                           run,
                                           ViewsSent(run.q) \ (1..Len(queue)),
                                           <<>>, FALSE, FALSE, NoRequest)
            ELSE IF env.mode = "auto-mc"
            THEN IF NotSet(env.bridge_url)
                 THEN PromoteEnds(user, "BridgeUrlMissing", who, dec.rank,
                                  handle, idle, {}, <<>>, FALSE, FALSE, NoRequest)
                 ELSE \E resp \in BridgeAnswers, add_result \in AddResults,
                         log_result \in SendResults :
                      \E b \in {BridgeRequest(user, who, handle, dec.rank,
                                              BridgeResult(resp), add_result,
                                              log_result)} :
                          PromoteEnds(user,
                                      IF b.ok THEN "AutoPromoted"
                                      ELSE "BridgeError",
                                      who, dec.rank, handle, b.run, {},
                                      b.posts,
                                      b.called, b.granted,
                                      session_post(env.bridge_url,
                                                   payload(user, handle,
                                                           dec.rank),
                                                   headers(env.bridge_token),
                                                   resp, b.ok))
            ELSE PromoteEnds(user, "UnknownMode", who, dec.rank, handle, idle,
                             {}, <<>>, FALSE, FALSE, NoRequest)

-----------------------------------------------------------------------------
(* on_member_join: the welcome DM behind the global throttle (_safe_dm) *)

\* the clock counts units of 0.6 s: 1.2 s and 3.0 s are 2 and 5 units
DM_INTERVAL == 2
DM_BACKOFF_40003 == 5
DM_MAX_RETRIES == 2

\* the members who join while the process runs
JoinMembers == {"carol", "dave"}

\* how member.send can end: delivered, discord.Forbidden, HTTPException with
\* code 40003, any other HTTPException, or an exception that is none of
\* discord's (the connection failed)
DmResults == {"ok", "Forbidden", "40003", "HTTPException", "error"}

\* how channel.send of the public welcome can end
PostResults == {"ok", "HTTPException"}

\* the channel the fallback posts in: the verification channel, else the log
\* channel, else the guild's system channel, else none
WelcomeChannel(ch) ==
    IF ch.verification THEN "verification"
    ELSE IF ch.log THEN "log"
    ELSE IF ch.system THEN "system"
    ELSE None

\* the guilds a member joins: no channel resolves, only the system channel,
\* the log channel too, and the verification channel too
ChannelSetups ==
    {[verification |-> FALSE, log |-> FALSE, system |-> FALSE],
     [verification |-> FALSE, log |-> FALSE, system |-> TRUE],
     [verification |-> FALSE, log |-> TRUE, system |-> TRUE],
     [verification |-> TRUE, log |-> TRUE, system |-> TRUE]}

\* the members whose DM dispatch is in progress
Dispatching ==
    {m \in JoinMembers : dmpc[m] = "sending"}
        \cup (IF verifypc = "sending" THEN {"verifier"} ELSE {})

\* the event loop's clock advances
Tick ==
    /\ now < MaxTime
    /\ now' = now + 1
    /\ UNCHANGED <<_LAST_DM_TS, _DM_LOCK, dmpc, attempt, wake, dm_starts, dm_ok,
                   dm_attempts, channels, welcome_posts, verifypc>>
    /\ UNCHANGED <<restVars, cardVars, evalVars, workVars, textVars, fetchVars>>

\* member m joins: on_member_join calls _safe_dm, which enters its loop
Join(m) ==
    /\ dmpc[m] = "joining"
    /\ dmpc' = [dmpc EXCEPT ![m] = "lock"]
    /\ attempt' = [attempt EXCEPT ![m] = 1]
    /\ UNCHANGED <<now, _LAST_DM_TS, _DM_LOCK, wake, dm_starts, dm_ok,
                   dm_attempts, channels, welcome_posts, verifypc>>
    /\ UNCHANGED <<restVars, cardVars, evalVars, workVars, textVars, fetchVars>>

\* async with _DM_LOCK: ... wait = max(0.0, (_LAST_DM_TS + DM_INTERVAL) - now);
\* the call sleeps until now + wait
DmAcquire(m) ==
    /\ dmpc[m] = "lock"
    /\ _DM_LOCK = None
    /\ _DM_LOCK' = m
    /\ wake' = [wake EXCEPT ![m] = Max({now, _LAST_DM_TS + DM_INTERVAL})]
    /\ dmpc' = [dmpc EXCEPT ![m] = "throttle"]
    /\ UNCHANGED <<now, _LAST_DM_TS, attempt, dm_starts, dm_ok,
                   dm_attempts, channels, welcome_posts, verifypc>>
    /\ UNCHANGED <<restVars, cardVars, evalVars, workVars, textVars, fetchVars>>

\* the sleep is over: member.send(content) starts
DmSend(m) ==
    /\ dmpc[m] = "throttle"
    /\ now >= wake[m]
    /\ dm_starts' = IF dm_starts = <<>> THEN <<now>>
                    ELSE <<dm_starts[Len(dm_starts)], now>>
    /\ dm_attempts' = [dm_attempts EXCEPT ![m] =
                          [results |-> Append(@.results, "pending"),
                           failed_at |-> 0]]
    /\ dmpc' = [dmpc EXCEPT ![m] = "sending"]
    /\ wake' = [wake EXCEPT ![m] = 0]
    /\ UNCHANGED <<now, _LAST_DM_TS, _DM_LOCK, attempt, dm_ok,
                   channels, welcome_posts, verifypc>>
    /\ UNCHANGED <<restVars, cardVars, evalVars, workVars, textVars, fetchVars>>

\* member.send ends with `result`: delivered, refused with 40003 while a retry
\* is left, refused for good, or failed with an exception _safe_dm does not
\* catch, which leaves _safe_dm and on_member_join
DmAnswer(m, result) ==
    /\ dmpc[m] = "sending"
    /\ dm_attempts' = [dm_attempts EXCEPT ![m] =
                          [results |-> [@.results EXCEPT ![Len(@.results)] = result],
                           failed_at |-> IF result = "40003" /\ attempt[m] <= DM_MAX_RETRIES
                                         THEN now ELSE 0]]
    /\ IF result = "ok"
       THEN /\ _LAST_DM_TS' = now
            /\ dm_ok' = [dm_ok EXCEPT ![m] = "True"]
            /\ dmpc' = [dmpc EXCEPT ![m] = "returned"]
            /\ _DM_LOCK' = None
            /\ UNCHANGED wake
       ELSE IF result = "error"
       THEN /\ dmpc' = [dmpc EXCEPT ![m] = "raised"]
            /\ _DM_LOCK' = None
            /\ UNCHANGED <<_LAST_DM_TS, wake, dm_ok>>
       ELSE IF result = "40003" /\ attempt[m] <= DM_MAX_RETRIES
       THEN /\ _LAST_DM_TS' = now + DM_BACKOFF_40003
            /\ wake' = [wake EXCEPT ![m] = now + DM_BACKOFF_40003]
            /\ dmpc' = [dmpc EXCEPT ![m] = "backoff"]
            /\ UNCHANGED <<_DM_LOCK, dm_ok>>
       ELSE /\ dm_ok' = [dm_ok EXCEPT ![m] = "False"]
            /\ dmpc' = [dmpc EXCEPT ![m] = "returned"]
            /\ _DM_LOCK' = None
            /\ UNCHANGED <<_LAST_DM_TS, wake>>
    /\ UNCHANGED <<now, attempt, dm_starts, channels, welcome_posts, verifypc>>
    /\ UNCHANGED <<restVars, cardVars, evalVars, workVars, textVars, fetchVars>>

\* asyncio.sleep(DM_BACKOFF_40003) is over: `continue` leaves the lock and
\* starts the next attempt
DmBackoffEnds(m) ==
    /\ dmpc[m] = "backoff"
    /\ now >= wake[m]
    /\ _DM_LOCK' = None
    /\ attempt' = [attempt EXCEPT ![m] = @ + 1]
    /\ dmpc' = [dmpc EXCEPT ![m] = "lock"]
    /\ wake' = [wake EXCEPT ![m] = 0]
    /\ UNCHANGED <<now, _LAST_DM_TS, dm_starts, dm_ok,
                   dm_attempts, channels, welcome_posts, verifypc>>
    /\ UNCHANGED <<restVars, cardVars, evalVars, workVars, textVars, fetchVars>>

\* variant: the fallback post is not wrapped
JoinEnds_unwrapped(m, post_result) ==
    /\ dmpc[m] = "returned"
    /\ LET channel == WelcomeChannel(channels)
           posts == dm_ok[m] = "False" /\ channel # None
       IN  /\ welcome_posts' =
                 IF posts
                 THEN welcome_posts \cup {[channel |-> channel, mention |-> m,
                                           result |-> post_result]}
                 ELSE welcome_posts
           /\ dmpc' = [dmpc EXCEPT ![m] =
                          IF posts /\ post_result # "ok" THEN "raised"
                          ELSE "done"]
    /\ UNCHANGED <<now, _LAST_DM_TS, _DM_LOCK, attempt, wake, dm_starts, dm_ok,
                   dm_attempts, channels, verifypc>>
    /\ UNCHANGED <<restVars, cardVars, evalVars, workVars, textVars, fetchVars>>

\* on_member_join after _safe_dm returned: done when the DM was delivered,
\* else the welcome is posted in the first channel that resolves, if any, and
\* a failure of that post is swallowed
JoinEnds(m, post_result) ==
    /\ dmpc[m] = "returned"
    /\ LET channel == WelcomeChannel(channels)
           posts == dm_ok[m] = "False" /\ channel # None
       IN  /\ welcome_posts' =
                 IF posts
                 THEN welcome_posts \cup {[channel |-> channel, mention |-> m,
                                           result |-> post_result]}
                 ELSE welcome_posts
           /\ dmpc' = [dmpc EXCEPT ![m] = "done"]
    /\ UNCHANGED <<now, _LAST_DM_TS, _DM_LOCK, attempt, wake, dm_starts, dm_ok,
                   dm_attempts, channels, verifypc>>
    /\ UNCHANGED <<restVars, cardVars, evalVars, workVars, textVars, fetchVars>>

\* VerifyModal.on_submit found no linked Discord, or another one: it starts
\* interaction.user.send(...), taking no lock and consulting no timestamp
VerifyDmStart ==
    /\ verifypc = "idle"
    /\ verifypc' = "sending"
    /\ UNCHANGED <<now, _LAST_DM_TS, _DM_LOCK, dmpc, attempt, wake, dm_starts,
                   dm_ok, dm_attempts, channels, welcome_posts>>
    /\ UNCHANGED <<restVars, cardVars, evalVars, workVars, textVars, fetchVars>>

\* that DM ends, delivered or refused, and the modal answers its user
VerifyDmEnd ==
    /\ verifypc = "sending"
    /\ verifypc' = "done"
    /\ UNCHANGED <<now, _LAST_DM_TS, _DM_LOCK, dmpc, attempt, wake, dm_starts,
                   dm_ok, dm_attempts, channels, welcome_posts>>
    /\ UNCHANGED <<restVars, cardVars, evalVars, workVars, textVars, fetchVars>>

-----------------------------------------------------------------------------
(* The message texts of the promotion pipeline *)

MAX_CONTENT == 2000

\* a text of n characters c
Chars(n, c) == [i \in 1..n |-> c]

\* the literal part of a template, n characters long
Lit(n) == Chars(n, ".")

\* user.mention, "<@id>", and msg.jump_url
UserMention == Lit(21)
JumpUrl == Lit(85)

\* the slice s[:n]
Slice(s, n) == IF Len(s) <= n THEN s ELSE SubSeq(s, 1, n)

\* a text passed through _trim(..., MAX_CONTENT); sliced: an input was cut by
\* a slice before
Trimmed(raw, sliced) ==
    [content |-> _trim(raw, MAX_CONTENT),
     cut |-> sliced \/ Len(raw) > MAX_CONTENT]

\* a text handed to the platform as composed
Untrimmed(raw) == [content |-> raw, cut |-> FALSE]

\* /promote: f"Error fetching stats: {e}"
StatsErrorText(e) == Untrimmed(Lit(22) \o e)

\* safe_queue_send: f"{who.mention} Promotion request created (embed/view trimmed)."
FallbackNoteText == Trimmed(UserMention \o Lit(48), FALSE)

\* _send_with_log: f"(!) {op} failed - HTTP {status} / code {code}:\n{text}"
SendFailureText(op, text) ==
    Trimmed(Lit(2) \o op \o Lit(15) \o Lit(3) \o Lit(8) \o Lit(5) \o Lit(2)
                \o text, FALSE)

\* /promote: the "Promotion Queued" audit entry
QueuedLogText(name, rank) ==
    Trimmed(Lit(25) \o UserMention \o Lit(9) \o name \o Lit(7) \o rank
                \o Lit(12) \o JumpUrl \o Lit(1), FALSE)

\* /promote: the auto-mc audit entry; log_body is body[:1800] + ellipsis when
\* the body is longer than 1800
AutoMcLogText(ok, name, rank, body) ==
    LET log_body == IF Len(body) > 1800 THEN Append(Slice(body, 1800), Ellipsis)
                    ELSE body
        prefix == IF ok THEN Lit(21) ELSE Lit(28)
    IN  Trimmed(prefix \o Lit(9) \o name \o Lit(7) \o rank \o Lit(18)
                    \o UserMention \o Lit(19) \o log_body \o Lit(1),
                Len(body) > 1800)

\* /promote: the bridge error response, around body[:1500]
BridgeErrorText(body) ==
    Trimmed(Lit(32) \o Slice(body, 1500) \o Lit(4), Len(body) > 1500)

\* /promote: the audit entry of a refused role mirroring
CouldNotAssignText(rank) ==
    Trimmed(Lit(34) \o rank \o Lit(6) \o UserMention \o Lit(28), FALSE)

\* /promote: the auto-mc success response
AutoPromotedText(name, rank) ==
    Trimmed(Lit(18) \o name \o Lit(30) \o rank \o Lit(4), FALSE)

\* approve: f"Role **{role_name}** not found in this server."
RoleNotFoundText(rank) == Untrimmed(Lit(7) \o rank \o Lit(28))

\* approve: the "Promotion Approved" audit entry
ApprovedLogText(rank, ign) ==
    Untrimmed(Lit(27) \o UserMention \o Lit(5) \o rank \o Lit(10) \o ign
                  \o Lit(7) \o UserMention \o Lit(11) \o JumpUrl \o Lit(1))

\* approve: the acknowledgement
ApprovedAckText(rank, ign) ==
    Untrimmed(Lit(21) \o UserMention \o Lit(6) \o rank \o Lit(10) \o ign
                  \o Lit(4))

\* reject: the "Promotion Rejected" audit entry
RejectedLogText(ign, rank) ==
    Untrimmed(Lit(33) \o ign \o Lit(18) \o rank \o Lit(8) \o UserMention
                  \o Lit(10) \o JumpUrl \o Lit(1))

\* the inputs: handles (a slash-command string may hold up to 6000
\* characters), rank names, upstream error texts, bridge bodies
HandleLens == {3, 16, 500, 1900, 2100}
RankLens == {6, 100}
ErrorLens == {20, 1978, 1979, 2500}
BodyLens == {0, 200, 1500, 1501, 1800, 1801, 2500}

LongHandles == {Chars(n, "u") : n \in HandleLens}
LongRankNames == {Chars(n, "r") : n \in RankLens}
ErrorTexts == {Chars(n, "e") : n \in ErrorLens}
Bodies == {Chars(n, "b") : n \in BodyLens}
QueueOps == {Lit(22), Lit(21), Lit(19)}

\* the text t as handed to the platform at `site`
Sent(site, t) == [site |-> site, content |-> t.content, cut |-> t.cut]

\* /promote answers a failed stats fetch
SendStatsError ==
    /\ \E e \in ErrorTexts :
          sent' = Sent("StatsError", StatsErrorText(e))
    /\ UNCHANGED <<restVars, cardVars, evalVars, workVars, dmVars, fetchVars>>

\* safe_queue_send posts the text-only note
SendFallbackNote ==
    /\ sent' = Sent("FallbackNote", FallbackNoteText)
    /\ UNCHANGED <<restVars, cardVars, evalVars, workVars, dmVars, fetchVars>>

\* _send_with_log reports a refused queue post
SendFailureLog ==
    /\ \E op \in QueueOps, text \in ErrorTexts :
          sent' = Sent("SendFailure", SendFailureText(op, text))
    /\ UNCHANGED <<restVars, cardVars, evalVars, workVars, dmVars, fetchVars>>

\* /promote logs the queued request
SendQueuedLog ==
    /\ \E name \in LongHandles, rank \in LongRankNames :
          sent' = Sent("QueuedLog", QueuedLogText(name, rank))
    /\ UNCHANGED <<restVars, cardVars, evalVars, workVars, dmVars, fetchVars>>

\* /promote logs the bridge call
SendAutoMcLog ==
    /\ \E ok \in BOOLEAN, name \in LongHandles, rank \in LongRankNames,
          body \in Bodies :
          sent' = Sent("AutoMcLog", AutoMcLogText(ok, name, rank, body))
    /\ UNCHANGED <<restVars, cardVars, evalVars, workVars, dmVars, fetchVars>>

\* /promote answers a failed bridge call
SendBridgeError ==
    /\ \E body \in Bodies :
          sent' = Sent("BridgeError", BridgeErrorText(body))
    /\ UNCHANGED <<restVars, cardVars, evalVars, workVars, dmVars, fetchVars>>

\* /promote logs a refused role mirroring
SendCouldNotAssign ==
    /\ \E rank \in LongRankNames :
          sent' = Sent("CouldNotAssign", CouldNotAssignText(rank))
    /\ UNCHANGED <<restVars, cardVars, evalVars, workVars, dmVars, fetchVars>>

\* /promote answers a successful bridge call
SendAutoPromoted ==
    /\ \E name \in LongHandles, rank \in LongRankNames :
          sent' = Sent("AutoPromoted", AutoPromotedText(name, rank))
    /\ UNCHANGED <<restVars, cardVars, evalVars, workVars, dmVars, fetchVars>>

\* approve answers a card whose role does not exist
SendRoleNotFound ==
    /\ \E rank \in LongRankNames :
          sent' = Sent("RoleNotFound", RoleNotFoundText(rank))
    /\ UNCHANGED <<restVars, cardVars, evalVars, workVars, dmVars, fetchVars>>

\* approve logs the promotion
SendApprovedLog ==
    /\ \E rank \in LongRankNames, ign \in LongHandles :
          sent' = Sent("ApprovedLog", ApprovedLogText(rank, ign))
    /\ UNCHANGED <<restVars, cardVars, evalVars, workVars, dmVars, fetchVars>>

\* approve acknowledges the promotion
SendApprovedAck ==
    /\ \E rank \in LongRankNames, ign \in LongHandles :
          sent' = Sent("ApprovedAck", ApprovedAckText(rank, ign))
    /\ UNCHANGED <<restVars, cardVars, evalVars, workVars, dmVars, fetchVars>>

\* reject logs the rejection
SendRejectedLog ==
    /\ \E rank \in LongRankNames, ign \in LongHandles :
          sent' = Sent("RejectedLog", RejectedLogText(ign, rank))
    /\ UNCHANGED <<restVars, cardVars, evalVars, workVars, dmVars, fetchVars>>

-----------------------------------------------------------------------------
(* The upstream lookups: Mojang, Hypixel and SkyHelper (utils/hypixel_api) *)

\* how a provider can answer one GET:
\*   "ok"      2xx with the JSON the caller looks for
\*   "odd"     2xx with JSON that lacks it (no "id", success false, no profiles)
\*   "null"    2xx whose body decodes to nothing: resp.json() returns None
\*   "empty"   2xx without a JSON body (204): resp.json() raises
\*   "status"  a non-2xx status: raise_for_status() raises
\*   "error"   the connection failed or timed out
Answers == {"ok", "odd", "null", "empty", "status", "error"}

\* the answers under which _fetch_json returns what resp.json() gave it
Returns == {"ok", "odd", "null"}

\* the answers the enumeration of the SkyHelper requests is restricted to
StatsAnswers == {"ok", "odd", "status"}

\* the exception an answer makes _fetch_json collect
ExceptionOf(answer) ==
    CASE answer = "status" -> "ClientResponseError"
      [] answer = "empty" -> "ContentTypeError"
      [] OTHER -> "ClientConnectionError"

\* _fetch_json(url, attempts=...): up to `attempts` GETs, the k-th answered
\* by answers[k]; returns the first JSON it gets, else raises the last
\* exception
_fetch_json(answers, attempts) ==
    LET good == {k \in 1..attempts : answers[k] \in Returns}
    IN  IF good # {}
        THEN [returned |-> TRUE, data |-> answers[Min(good)],
              requests |-> Min(good)]
        ELSE [returned |-> FALSE, data |-> ExceptionOf(answers[attempts]),
              requests |-> attempts]

\* the four URLs _skyhelper_fetch_profiles tries for the one configured base,
\* each with attempts=2: /v2 twice, then /v1 twice
SkyHelperUrls == 4

\* _skyhelper_fetch_profiles: the first URL whose _fetch_json returns, else
\* the last exception; answers[u] are the answers to the GETs of URL u
RECURSIVE _skyhelper_fetch_profiles(_, _, _)
_skyhelper_fetch_profiles(answers, u, requests) ==
    LET r == _fetch_json(answers[u], 2)
    IN  IF r.returned \/ u = SkyHelperUrls
        THEN [r EXCEPT !.requests = requests + r.requests]
        ELSE _skyhelper_fetch_profiles(answers, u + 1, requests + r.requests)

\* who looks a username up
Callers == {"promote", "ranksync", "verification"}

NoFetch ==
    [caller |-> "none", pc |-> "idle", uuid |-> "pending", provider |-> "none",
     error |-> "none", requests |-> [identity |-> 0, profiles |-> 0, stats |-> 0],
     reply |-> [kind |-> "none", detail |-> "none"]]

\* a user invokes /promote, /ranksync or the verification modal
Lookup(caller) ==
    /\ fetch.pc = "idle"
    /\ fetch' = [fetch EXCEPT !.caller = caller, !.pc = "identity"]
    /\ UNCHANGED <<restVars, cardVars, evalVars, workVars, dmVars, textVars>>

\* username_to_uuid(username): _fetch_json(url, attempts=2), then
\* data.get("id"): the id, None when the JSON has none, AttributeError when
\* there is no JSON object
username_to_uuid(answers) ==
    /\ fetch.pc = "identity"
    /\ \E r \in {_fetch_json(answers, 2)} :
         fetch' = [fetch EXCEPT
            !.provider = answers[r.requests],
            !.requests.identity = r.requests,
            !.uuid = IF ~r.returned \/ r.data = "null" THEN "raised"
                     ELSE IF r.data = "ok" THEN "uuid" ELSE "None",
            !.error = IF ~r.returned THEN r.data
                      ELSE IF r.data = "null" THEN "AttributeError"
                      ELSE "none",
            !.pc = "resolved"]
    /\ UNCHANGED <<restVars, cardVars, evalVars, workVars, dmVars, textVars>>

\* _hypixel_selected_profile_uuid after username_to_uuid returned: ValueError
\* when there is no uuid, else the profiles request with the default
\* attempts=3 and the checks of its JSON
_hypixel_selected_profile_uuid(answers) ==
    /\ fetch.caller = "promote"
    /\ fetch.pc = "resolved"
    /\ fetch.uuid # "raised"
    /\ IF fetch.uuid = "None"
       THEN fetch' = [fetch EXCEPT !.error = "ValueError", !.pc = "failed"]
       ELSE \E r \in {_fetch_json(answers, 3)} :
              fetch' = [fetch EXCEPT
                 !.requests.profiles = r.requests,
                 !.error = IF ~r.returned THEN r.data
                           ELSE IF r.data = "null" THEN "AttributeError"
                           ELSE IF r.data = "odd" THEN "RuntimeError"
                           ELSE "none",
                 !.pc = IF r.returned /\ r.data = "ok" THEN "checked"
                        ELSE "failed"]
    /\ UNCHANGED <<restVars, cardVars, evalVars, workVars, dmVars, textVars>>

\* get_sb_stats after the profile check: _skyhelper_fetch_profiles, then the
\* profiles of its JSON
get_sb_stats(answers) ==
    /\ fetch.caller = "promote"
    /\ fetch.pc = "checked"
    /\ \E r \in {_skyhelper_fetch_profiles(answers, 1, 0)} :
         fetch' = [fetch EXCEPT
            !.requests.stats = r.requests,
            !.error = IF ~r.returned THEN r.data
                      ELSE IF r.data = "odd" THEN "RuntimeError"
                      ELSE "none",
            !.pc = IF r.returned /\ r.data = "ok" THEN "fetched" ELSE "failed"]
    /\ UNCHANGED <<restVars, cardVars, evalVars, workVars, dmVars, textVars>>

\* what the caller answers once the lookup has ended:
\*   /promote      any exception of get_sb_stats as "Error fetching stats: {e}"
\*   /ranksync     "I couldn't find ..." for None; an exception is not caught
\*   verification  "Error talking to Mojang: {e}" for an exception,
\*                 "Could not find Minecraft user ..." for None
Reply ==
    /\ \/ fetch.pc \in {"failed", "fetched"}
       \/ fetch.pc = "resolved"
             /\ (fetch.caller # "promote" \/ fetch.uuid = "raised")
    /\ fetch' = [fetch EXCEPT
          !.pc = "replied",
          !.reply =
             IF fetch.caller = "promote"
             THEN IF fetch.error = "none"
                  THEN [kind |-> "continues", detail |-> "none"]
                  ELSE [kind |-> "StatsError", detail |-> fetch.error]
             ELSE IF fetch.uuid = "raised"
             THEN IF fetch.caller = "ranksync"
                  THEN [kind |-> "raised", detail |-> fetch.error]
                  ELSE [kind |-> "MojangError", detail |-> fetch.error]
             ELSE IF fetch.uuid = "None"
             THEN [kind |-> "NotFound", detail |-> "none"]
             ELSE [kind |-> "continues", detail |-> "none"]]
    /\ UNCHANGED <<restVars, cardVars, evalVars, workVars, dmVars, textVars>>

\* only SpecFetch looks anything up
FetchIdle == fetch = NoFetch

-----------------------------------------------------------------------------
(* The parts of the state a specification leaves idle *)

\* Spec, SpecPromote, SpecEval and SpecCard see no member join
DmIdle ==
    /\ now = 0
    /\ _LAST_DM_TS = 0
    /\ _DM_LOCK = None
    /\ dmpc = [m \in JoinMembers |-> "joining"]
    /\ attempt = [m \in JoinMembers |-> 1]
    /\ wake = [m \in JoinMembers |-> 0]
    /\ dm_starts = <<>>
    /\ dm_ok = [m \in JoinMembers |-> None]
    /\ dm_attempts = [m \in JoinMembers |-> [results |-> <<>>, failed_at |-> 0]]
    /\ channels = [verification |-> FALSE, log |-> FALSE, system |-> FALSE]
    /\ welcome_posts = {}
    /\ verifypc = "idle"

\* the guilds of the model: one where the bot can grant every rank role, and
\* one each where a rank role is missing, where the bot lacks Manage Roles,
\* and where the bot's top role is RankMember itself
Guilds ==
    {[roles |-> {RankMember, RankElite}, bot_manage_roles |-> TRUE, bot_top |-> 3],
     [roles |-> {RankElite}, bot_manage_roles |-> TRUE, bot_top |-> 3],
     [roles |-> {RankMember, RankElite}, bot_manage_roles |-> FALSE, bot_top |-> 3],
     [roles |-> {RankMember, RankElite}, bot_manage_roles |-> TRUE, bot_top |-> 1]}

\* the settings of PROMOTION_MODE under which the process runs discord-only
DiscordOnlyRawModes ==
    {raw \in RawModes : PROMOTION_MODE(raw) = "discord-only"}

NoInteraction ==
    Interaction("none", 0, None, NoPermissions,
                Outcome("none", None, <<>>, <<>>, FALSE, FALSE, FALSE))

\* SpecEval and SpecCard leave the bot idle
WorkIdle ==
    /\ guild = [roles |-> {}, bot_manage_roles |-> FALSE, bot_top |-> 0]
    /\ member_roles = [m \in Members |-> {}]
    /\ cfg = [log_channel_id |-> None, promotion_channel_id |-> None]
    /\ env = [mode |-> "discord-only", bridge_url |-> None,
              bridge_token |-> None]
    /\ queue = <<>>
    /\ log = <<>>
    /\ view_store = {}
    /\ epoch = 0
    /\ acks = <<>>
    /\ bridge_posts = <<>>
    /\ bridge_request = NoRequest
    /\ add_roles_calls = 0
    /\ interaction = NoInteraction
    /\ events = 0

\* the parts beside the promotion flow stand idle, part by part
\* no handler runs are in flight together
ConcIdle == tasks = <<>>
\* no call of _fetch_json is followed step by step
RetryIdle == retry = [pc |-> "idle", attempts |-> 0, backoff |-> 0, i |-> 0,
             requests |-> 0, waits |-> <<>>, last_exc |-> "none",
             data |-> "none", answers |-> <<>>]
\* no profile list is being looked through
PickIdle == pick = [pc |-> "idle", profiles |-> <<>>, latest |-> 0, error |-> "none"]
\* nobody runs /ranksync
SyncIdle == sync = [pc |-> "idle", held |-> {}, before |-> {}, mapping |-> <<>>,
            exists |-> {}, manage_roles |-> FALSE, top_role |-> 0,
            hyp_rank |-> 0, role |-> 0, to_remove |-> <<>>, reply |-> "none",
            runs |-> 0]
\* nobody verifies and nothing asks for a cooldown
VerifyIdle ==
    /\ verify = [pc |-> "idle", global_name |-> <<>>, nick |-> <<>>,
                  discriminator |-> <<>>, cooldown_seconds |-> 0,
                  attempts |-> 0, elapsed |-> 0, ign |-> <<>>,
                  linked |-> <<>>, lookups |-> 0, nick_edited |-> FALSE,
                  role_granted |-> FALSE, has_role |-> FALSE, reply |-> "none"]
    /\ cooldown = [pc |-> "idle", cooldown_seconds |-> 0, delta |-> 0,
                    remaining |-> 0]
\* the client is not started
StartIdle ==
    /\ startup = [pc |-> "idle", imported |-> {}, loaded |-> {}, handlers |-> {}]
    /\ gateway = <<>>
\* no configuration command runs
StoreIdle ==
    /\ guild_config = <<>>
    /\ initial_config = <<>>
    /\ cmds = <<>>
    /\ applied = <<>>

RestIdle == ConcIdle /\ RetryIdle /\ PickIdle /\ SyncIdle /\ VerifyIdle /\ StartIdle /\ StoreIdle

BesideConcIdle == RetryIdle /\ PickIdle /\ SyncIdle /\ VerifyIdle /\ StartIdle /\ StoreIdle
BesideRetryIdle == ConcIdle /\ PickIdle /\ SyncIdle /\ VerifyIdle /\ StartIdle /\ StoreIdle
BesidePickIdle == ConcIdle /\ RetryIdle /\ SyncIdle /\ VerifyIdle /\ StartIdle /\ StoreIdle
BesideSyncIdle == ConcIdle /\ RetryIdle /\ PickIdle /\ VerifyIdle /\ StartIdle /\ StoreIdle
BesideVerifyIdle == ConcIdle /\ RetryIdle /\ PickIdle /\ SyncIdle /\ StartIdle /\ StoreIdle
BesideStartIdle == ConcIdle /\ RetryIdle /\ PickIdle /\ SyncIdle /\ VerifyIdle /\ StoreIdle
BesideStoreIdle == ConcIdle /\ RetryIdle /\ PickIdle /\ SyncIdle /\ VerifyIdle /\ StartIdle

\* Spec and SpecEval render and parse no free-standing card text
CardIdle ==
    /\ username = <<>>
    /\ role_name = <<>>
    /\ desc = <<>>
    /\ parsed = [ign |-> NoMatch, rank |-> NoMatch]
    /\ cardpc = "idle"

\* only SpecText composes message texts
TextIdle == sent = [site |-> "none", content |-> <<>>, cut |-> FALSE]

\* Spec and SpecCard evaluate no free-standing stats record
EvalIdle ==
    /\ stats = [networth |-> 0, sb_level |-> 0, skill_avg |-> 0, slayer_xp |-> 0,
                cata_lvl |-> 0, rift_all_charms |-> FALSE, farm_weight |-> 0,
                masteries |-> 0]
    /\ reqs = [networth |-> 0, sb_level |-> 0, skill_avg |-> 0, slayer_xp |-> 0,
               cata_lvl |-> 0, rift_charms |-> "none", farm_weight |-> 0]
    /\ rank_thresholds = <<>>
    /\ decision = [kind |-> "none", failed |-> <<>>, rank |-> <<>>]
    /\ evalpc = "idle"

-----------------------------------------------------------------------------
(* SpecEval: evaluate a stats record against requirements and a rank table *)

StatsRecords(nums, masteryCounts) ==
    [networth : nums, sb_level : nums, skill_avg : nums, slayer_xp : nums,
     cata_lvl : nums, rift_all_charms : BOOLEAN, farm_weight : nums,
     masteries : masteryCounts]

Requirements(riftModes) ==
    [networth : {ReqLevel}, sb_level : {ReqLevel}, skill_avg : {ReqLevel},
     slayer_xp : {ReqLevel}, cata_lvl : {ReqLevel}, rift_charms : riftModes,
     farm_weight : {ReqLevel}]

\* every table of distinct integer thresholds in 0..MaxThreshold
RankTables == UNION {[T -> RankNames] : T \in SUBSET (0..MaxThreshold)}

\* the table {0: Member, 1: Elite, 2: Legend}
ExampleTable == [t \in 0..2 |-> CASE t = 0 -> RankMember
                                  [] t = 1 -> RankElite
                                  [] OTHER -> RankLegend]

\* stats records that pass every requirement of Requirements(..)
PassingStats ==
    {st \in StatsRecords({ReqLevel, MaxStat}, 0..MaxMastery) : st.rift_all_charms}

\* either every stats record against the example table, or every passing
\* stats record against every table
EvalInit ==
    /\ CardIdle
    /\ WorkIdle
    /\ DmIdle
    /\ TextIdle
    /\ RestIdle
    /\ FetchIdle
    /\ \/ /\ stats \in StatsRecords(0..MaxStat, {0, MaxMastery})
          /\ reqs \in Requirements({"all", "none"})
          /\ rank_thresholds = ExampleTable
       \/ /\ stats \in PassingStats
          /\ reqs \in Requirements({"all"})
          /\ rank_thresholds \in RankTables
    /\ decision = [kind |-> "none", failed |-> <<>>, rank |-> <<>>]
    /\ evalpc = "input"

EvalStep ==
    /\ evalpc = "input"
    /\ decision' = Evaluate(stats, reqs, rank_thresholds)
    /\ evalpc' = "evaluated"
    /\ UNCHANGED <<stats, reqs, rank_thresholds>>
    /\ UNCHANGED <<restVars, cardVars, workVars, dmVars, textVars, fetchVars>>

EvalNext == EvalStep

SpecEval == EvalInit /\ [][EvalNext]_vars

-----------------------------------------------------------------------------
(* SpecCard: render a request into a card description, then parse it *)

\* a handle so long that the rendered description exceeds DescLimit
LongHandle == [i \in 1..DescLimit |-> "a"]

CardHandles == Texts(MaxLen) \cup {LongHandle}
CardRanks == Texts(MaxRankLen)

NotParsed == [ign |-> NoMatch, rank |-> NoMatch]

CardInit ==
    /\ EvalIdle
    /\ WorkIdle
    /\ DmIdle
    /\ TextIdle
    /\ RestIdle
    /\ FetchIdle
    /\ username \in CardHandles
    /\ role_name \in CardRanks
    /\ desc = <<>>
    /\ parsed = NotParsed
    /\ cardpc = "input"

\* /promote builds the embed description
CardRender ==
    /\ cardpc = "input"
    /\ desc' = RenderDescription(username, role_name)
    /\ cardpc' = "rendered"
    /\ UNCHANGED <<username, role_name, parsed>>
    /\ UNCHANGED <<restVars, evalVars, workVars, dmVars, textVars, fetchVars>>

\* the approve handler parses embed.description
CardParse ==
    /\ cardpc = "rendered"
    /\ parsed' = ParseDescription(desc)
    /\ cardpc' = "parsed"
    /\ UNCHANGED <<username, role_name, desc>>
    /\ UNCHANGED <<restVars, evalVars, workVars, dmVars, textVars, fetchVars>>

CardNext == CardRender \/ CardParse

SpecCard == CardInit /\ [][CardNext]_vars

-----------------------------------------------------------------------------
(* Spec: the bot process in its guild, running in discord-only mode *)

\* variant: a startup that registers no persistent view
Restart_registersNothing ==
    /\ epoch < MaxRestarts
    /\ events < MaxEvents
    /\ epoch' = epoch + 1
    /\ view_store' = {}
    /\ UNCHANGED <<guild, member_roles, cfg, env, queue, log, acks,
                   bridge_posts, bridge_request, add_roles_calls,
                   interaction, events>>
    /\ UNCHANGED <<restVars, cardVars, evalVars, dmVars, textVars, fetchVars>>

\* the process stops and starts again: its memory (the views stored for the
\* messages it sent) is gone, setup_hook registers the persistent views anew;
\* the guild, the channels and guild_config.json live outside the process;
\* restarts are explored while a further event can follow them
Restart ==
    /\ epoch < MaxRestarts
    /\ events < MaxEvents
    /\ epoch' = epoch + 1
    /\ view_store' = StartupViews
    /\ UNCHANGED <<guild, member_roles, cfg, env, queue, log, acks,
                   bridge_posts, bridge_request, add_roles_calls,
                   interaction, events>>
    /\ UNCHANGED <<restVars, cardVars, evalVars, dmVars, textVars, fetchVars>>

\* cards found in the queue channel when the process starts, posted with the
\* mention of the target in the message that carries the buttons: a complete
\* one, one without embed, and one whose description lacks the rank field
EarlierCards ==
    {Message(<<Mention("alice")>>,
             <<[description |-> RenderDescription(Steve, RankMember)]>>,
             TRUE, "earlier", "alice"),
     Message(<<Mention("alice")>>, <<>>, TRUE, "earlier", "alice"),
     Message(<<Mention("alice")>>,
             <<[description |-> IGN_LABEL \o <<" ", "*", "*">> \o Steve
                                  \o <<"*", "*">>]>>,
             TRUE, "earlier", "alice")}

WorkInit ==
    /\ guild \in Guilds
    /\ member_roles = [m \in Members |-> {}]
    /\ cfg \in [log_channel_id : {None, "log-channel"},
                 promotion_channel_id : {None, "queue-channel"}]
    /\ env \in {[mode |-> PROMOTION_MODE(raw), bridge_url |-> None,
                  bridge_token |-> None] :
                   raw \in DiscordOnlyRawModes}
    /\ queue \in {<<>>} \cup {<<c>> : c \in EarlierCards}
    /\ log = <<>>
    /\ view_store = StartupViews
    /\ epoch = 0
    /\ acks = [i \in 1..Len(queue) |-> <<>>]
    /\ bridge_posts = <<>>
    /\ bridge_request = NoRequest
    /\ add_roles_calls = 0
    /\ interaction = NoInteraction
    /\ events = 0

Init ==
    CardIdle /\ EvalIdle /\ DmIdle /\ TextIdle /\ FetchIdle /\ RestIdle /\ WorkInit

Next ==
    \/ Restart
    \/ \E user \in Members, member \in Members \cup {None},
          handle \in PromoteHandles :
            promote(user, handle, member)
    \/ \E i \in 1..Len(queue), user \in Members, p \in Permissions :
            Approve(i, user, p)
    \/ \E i \in 1..Len(queue), user \in Members, p \in Permissions :
            Reject(i, user, p)

Spec == Init /\ [][Next]_vars

-----------------------------------------------------------------------------
(* SpecPromote: /promote under every setting of PROMOTION_MODE, with and *)
(* without PROMOTION_BRIDGE_URL, queue channel and log channel           *)

BridgeUrl == "bridge-url"

\* PROMOTION_BRIDGE_TOKEN: unset, set to the empty string, or a token
BridgeTokens == {None, "", "token"}

PromoteInit ==
    /\ CardIdle
    /\ EvalIdle
    /\ DmIdle
    /\ TextIdle
    /\ RestIdle
    /\ FetchIdle
    /\ guild \in Guilds
    /\ member_roles = [m \in Members |-> {}]
    /\ cfg \in [log_channel_id : {None, "log-channel"},
                 promotion_channel_id : {None, "queue-channel"}]
    /\ env \in {[mode |-> PROMOTION_MODE(raw), bridge_url |-> u,
                  bridge_token |-> t] :
                   raw \in RawModes, u \in {None, BridgeUrl},
                   t \in BridgeTokens}
    /\ queue = <<>>
    /\ log = <<>>
    /\ view_store = StartupViews
    /\ epoch = 0
    /\ acks = <<>>
    /\ bridge_posts = <<>>
    /\ bridge_request = NoRequest
    /\ add_roles_calls = 0
    /\ interaction = NoInteraction
    /\ events = 0

PromoteNext ==
    \E user \in Members, member \in Members \cup {None},
       handle \in PromoteHandles :
        promote(user, handle, member)

SpecPromote == PromoteInit /\ [][PromoteNext]_vars

-----------------------------------------------------------------------------
(* SpecDM: members join and are sent the welcome DM *)

\* the module is freshly imported (_LAST_DM_TS = 0.0, lock free) and the
\* loop's clock stands at some instant
DmInit ==
    /\ CardIdle
    /\ EvalIdle
    /\ WorkIdle
    /\ TextIdle
    /\ RestIdle
    /\ FetchIdle
    /\ now \in 0..DM_INTERVAL
    /\ _LAST_DM_TS = 0
    /\ _DM_LOCK = None
    /\ dmpc = [m \in JoinMembers |-> "joining"]
    /\ attempt = [m \in JoinMembers |-> 1]
    /\ wake = [m \in JoinMembers |-> 0]
    /\ dm_starts = <<>>
    /\ dm_ok = [m \in JoinMembers |-> None]
    /\ dm_attempts = [m \in JoinMembers |-> [results |-> <<>>, failed_at |-> 0]]
    /\ channels \in ChannelSetups
    /\ welcome_posts = {}
    /\ verifypc = "idle"

DmNext ==
    \/ Tick
    \/ \E m \in JoinMembers : Join(m)
    \/ \E m \in JoinMembers : DmAcquire(m)
    \/ \E m \in JoinMembers : DmSend(m)
    \/ \E m \in JoinMembers, result \in DmResults : DmAnswer(m, result)
    \/ \E m \in JoinMembers : DmBackoffEnds(m)
    \/ \E m \in JoinMembers, post_result \in PostResults : JoinEnds(m, post_result)
    \/ VerifyDmStart
    \/ VerifyDmEnd

SpecDM == DmInit /\ [][DmNext]_vars

-----------------------------------------------------------------------------
(* SpecText: the pipeline composes and sends its message texts *)

TextInit ==
    /\ CardIdle
    /\ EvalIdle
    /\ WorkIdle
    /\ DmIdle
    /\ TextIdle
    /\ RestIdle
    /\ FetchIdle

TextNext ==
    \/ SendStatsError
    \/ SendFallbackNote
    \/ SendFailureLog
    \/ SendQueuedLog
    \/ SendAutoMcLog
    \/ SendBridgeError
    \/ SendCouldNotAssign
    \/ SendAutoPromoted
    \/ SendRoleNotFound
    \/ SendApprovedLog
    \/ SendApprovedAck
    \/ SendRejectedLog

SpecText == TextInit /\ [][TextNext]_vars

-----------------------------------------------------------------------------
(* SpecFetch: a caller resolves a username and /promote fetches the stats *)

FetchInit ==
    /\ CardIdle
    /\ EvalIdle
    /\ WorkIdle
    /\ DmIdle
    /\ TextIdle
    /\ RestIdle
    /\ FetchIdle

FetchNext ==
    \/ \E caller \in Callers : Lookup(caller)
    \/ \E answers \in [1..2 -> Answers] : username_to_uuid(answers)
    \/ \E answers \in [1..3 -> Answers] :
          _hypixel_selected_profile_uuid(answers)
    \/ \E answers \in [1..SkyHelperUrls -> [1..2 -> StatsAnswers]] :
          get_sb_stats(answers)
    \/ Reply

SpecFetch == FetchInit /\ [][FetchNext]_vars

-----------------------------------------------------------------------------
(* SpecConc: handler runs in flight together.  Every handler is a coroutine
   on one event loop: it runs alone from one await to the next, and other
   handlers run while it waits.  The steps below end where the handler
   awaits an answer that another run can precede: the platform's answer to
   add_roles, the stats fetch, the queue posts, the bridge POST.  The posts
   to the log channel and the closing response are taken together with the
   step before them: they read and write no state another handler reads. *)

NoRoles == [m \in Members |-> {}]

\* the two cards in the queue: both mention alice, for different ranks
ConcCards ==
    <<Message(<<Mention("alice")>>,
              <<[description |-> RenderDescription(Steve, RankMember)]>>,
              TRUE, "earlier", "alice"),
      Message(<<Mention("alice")>>,
              <<[description |-> RenderDescription(Steve, RankElite)]>>,
              TRUE, "earlier", "alice")>>

ManageRoles == [manage_roles |-> TRUE, administrator |-> FALSE]

\* the invocations that can be in flight together
Invocations ==
    {[h |-> "approve", card |-> i, user |-> u, p |-> p, member |-> None] :
        i \in 1..2, u \in Members, p \in {ManageRoles, NoPermissions}}
      \cup {[h |-> "reject", card |-> i, user |-> "bob", p |-> ManageRoles,
             member |-> None] : i \in 1..2}
      \cup {[h |-> "promote", card |-> 0, user |-> "bob", p |-> NoPermissions,
             member |-> m] : m \in {None, "alice"}}

\* a run as it starts: nothing read, nothing asked, no answer received
Started(inv) ==
    [inv |-> inv, pc |-> "start", seen |-> NoRoles, rank |-> <<>>,
     bridge |-> "error", add |-> "ok", log |-> "ok", kind |-> "none"]

InFlight == 2

\* the member a /promote run is for: `member or interaction.user`
Who(inv) == IF inv.member # None THEN inv.member ELSE inv.user

\* approve up to its first await: the early returns answer at once; otherwise
\* the handler has read target_member.roles and either waits for add_roles or
\* goes on to the log post
ApproveChecks(t) ==
    /\ tasks[t].pc = "start"
    /\ tasks[t].inv.h = "approve"
    /\ Dispatchable(tasks[t].inv.card)
    /\ \E pre \in {ApproveOutcome(guild, member_roles, log_ch,
                                 queue[tasks[t].inv.card], tasks[t].inv.p,
                                 "ok", "ok")} :
          tasks' = [tasks EXCEPT
                      ![t].seen = member_roles,
                      ![t].pc = IF pre.called THEN "add_roles"
                                ELSE IF pre.kind = "Approved" THEN "log"
                                ELSE "done",
                      ![t].kind = IF pre.kind = "Approved" THEN "none"
                                  ELSE pre.kind]
    /\ UNCHANGED <<flowVars, besideConc>>

\* variant: the handler writes back the roles it read before the await, with
\* the new role added
ApproveAddRoles_writesBack(t, add_result) ==
    /\ tasks[t].pc = "add_roles"
    /\ tasks[t].inv.h = "approve"
    /\ \E out \in {ApproveOutcome(guild, tasks[t].seen, log_ch,
                                 queue[tasks[t].inv.card], tasks[t].inv.p,
                                 add_result, "ok")} :
          /\ member_roles' =
                IF out.granted
                THEN [member_roles EXCEPT
                         ![out.target] = tasks[t].seen[out.target] \cup {out.role}]
                ELSE member_roles
          /\ add_roles_calls' = add_roles_calls + 1
          /\ tasks' = [tasks EXCEPT
                         ![t].add = add_result,
                         ![t].pc = IF out.kind = "Approved" THEN "log"
                                   ELSE "done",
                         ![t].kind = IF out.kind = "Approved" THEN "none"
                                     ELSE out.kind]
    /\ UNCHANGED <<guild, cfg, env, queue, log, view_store, epoch, acks,
                   bridge_posts, bridge_request, interaction, events>>
    /\ UNCHANGED <<besideConc, cardVars, evalVars, dmVars, textVars, fetchVars>>

\* the platform answers add_roles: the role is added to whatever the member
\* holds by now (PUT .../members/{id}/roles/{role})
ApproveAddRoles(t, add_result) ==
    /\ tasks[t].pc = "add_roles"
    /\ tasks[t].inv.h = "approve"
    /\ \E out \in {ApproveOutcome(guild, tasks[t].seen, log_ch,
                                 queue[tasks[t].inv.card], tasks[t].inv.p,
                                 add_result, "ok")} :
          /\ member_roles' =
                IF out.granted
                THEN [member_roles EXCEPT ![out.target] = @ \cup {out.role}]
                ELSE member_roles
          /\ add_roles_calls' = add_roles_calls + 1
          /\ tasks' = [tasks EXCEPT
                         ![t].add = add_result,
                         ![t].pc = IF out.kind = "Approved" THEN "log"
                                   ELSE "done",
                         ![t].kind = IF out.kind = "Approved" THEN "none"
                                     ELSE out.kind]
    /\ UNCHANGED <<guild, cfg, env, queue, log, view_store, epoch, acks,
                   bridge_posts, bridge_request, interaction, events>>
    /\ UNCHANGED <<besideConc, cardVars, evalVars, dmVars, textVars, fetchVars>>

\* the log post and the acknowledgement of an approve
ApproveLogs(t, log_result) ==
    /\ tasks[t].pc = "log"
    /\ tasks[t].inv.h = "approve"
    /\ \E out \in {ApproveOutcome(guild, tasks[t].seen, log_ch,
                                 queue[tasks[t].inv.card], tasks[t].inv.p,
                                 tasks[t].add, log_result)} :
          /\ log' = IF out.logged
                    THEN Append(log, LogEntry("Approved", out.target, out.role,
                                              out.ign, tasks[t].inv.user,
                                              tasks[t].inv.card))
                    ELSE log
          /\ acks' = IF out.kind = "Approved"
                     THEN [acks EXCEPT ![tasks[t].inv.card] = Append(@, Ack(out))]
                     ELSE acks
          /\ tasks' = [tasks EXCEPT ![t].log = log_result, ![t].pc = "done",
                                    ![t].kind = out.kind]
    /\ UNCHANGED <<guild, member_roles, cfg, env, queue, view_store, epoch,
                   bridge_posts, bridge_request, add_roles_calls, interaction,
                   events>>
    /\ UNCHANGED <<besideConc, cardVars, evalVars, dmVars, textVars, fetchVars>>

\* reject: its checks, log post and response
RejectRuns(t, log_result) ==
    /\ tasks[t].pc = "start"
    /\ tasks[t].inv.h = "reject"
    /\ Dispatchable(tasks[t].inv.card)
    /\ \E out \in {RejectOutcome(log_ch, queue[tasks[t].inv.card],
                                tasks[t].inv.p, log_result)} :
          /\ log' = IF out.logged
                    THEN Append(log, LogEntry("Rejected", None, out.role,
                                              out.ign, tasks[t].inv.user,
                                              tasks[t].inv.card))
                    ELSE log
          /\ acks' = IF out.kind = "Rejected"
                     THEN [acks EXCEPT ![tasks[t].inv.card] = Append(@, Ack(out))]
                     ELSE acks
          /\ tasks' = [tasks EXCEPT ![t].log = log_result, ![t].pc = "done",
                                    ![t].kind = out.kind]
    /\ UNCHANGED <<guild, member_roles, cfg, env, queue, view_store, epoch,
                   bridge_posts, bridge_request, add_roles_calls, interaction,
                   events>>
    /\ UNCHANGED <<besideConc, cardVars, evalVars, dmVars, textVars, fetchVars>>

\* /promote defers and asks for the stats
PromoteAsks(t) ==
    /\ tasks[t].pc = "start"
    /\ tasks[t].inv.h = "promote"
    /\ tasks[t].inv.user \in GuildAdmins
    /\ tasks' = [tasks EXCEPT ![t].pc = "fetch"]
    /\ UNCHANGED <<flowVars, besideConc>>

\* the stats arrive (or the fetch fails): requirements, rank, mode
PromoteDecides(t, fetched) ==
    /\ tasks[t].pc = "fetch"
    /\ LET dec == Evaluate(fetched.stats, ConfigRequirements, ConfigRanks)
           ends == IF ~fetched.ok THEN "StatsError"
                   ELSE IF dec.kind # "Accepted" THEN dec.kind
                   ELSE IF env.mode = "discord-only"
                   THEN (IF NotSet(cfg.promotion_channel_id)
                         THEN "NoQueueChannel" ELSE "none")
                   ELSE IF env.mode = "auto-mc"
                   THEN (IF NotSet(env.bridge_url)
                         THEN "BridgeUrlMissing" ELSE "none")
                   ELSE "UnknownMode"
       IN  tasks' = [tasks EXCEPT
                       ![t].kind = ends,
                       ![t].rank = IF fetched.ok /\ dec.kind = "Accepted"
                                   THEN dec.rank ELSE <<>>,
                       ![t].pc = IF ends # "none" THEN "done"
                                 ELSE IF env.mode = "discord-only" THEN "queue"
                                 ELSE "bridge"]
    /\ UNCHANGED <<flowVars, besideConc>>

\* discord-only: the queue posts, the log post and the response
PromoteQueues(t, r1, r2, r3, log_result) ==
    /\ tasks[t].pc = "queue"
    /\ \E run \in {QueueRequest(tasks[t].inv.user, Who(tasks[t].inv), Steve,
                               tasks[t].rank, r1, r2, r3, log_result)} :
          /\ queue' = run.q
          /\ log' = run.lg
          /\ acks' = [i \in 1..Len(run.q) |->
                         IF i <= Len(queue) THEN acks[i] ELSE <<>>]
          /\ view_store' = view_store \cup (ViewsSent(run.q) \ (1..Len(queue)))
          /\ tasks' = [tasks EXCEPT ![t].log = log_result, ![t].pc = "done",
                                    ![t].kind = IF run.raised THEN "raised"
                                                ELSE "Queued"]
    /\ UNCHANGED <<guild, member_roles, cfg, env, epoch, bridge_posts,
                   bridge_request, add_roles_calls, interaction, events>>
    /\ UNCHANGED <<besideConc, cardVars, evalVars, dmVars, textVars, fetchVars>>

\* auto-mc: the bridge answers the POST
PromoteBridged(t, resp) ==
    /\ tasks[t].pc = "bridge"
    /\ bridge_posts' = Append(bridge_posts, BridgeResult(resp))
    /\ bridge_request' =
          session_post(env.bridge_url,
                       payload(tasks[t].inv.user, Steve, tasks[t].rank),
                       headers(env.bridge_token), resp,
                       BridgeResult(resp) = "2xx")
    /\ tasks' = [tasks EXCEPT ![t].bridge = BridgeResult(resp),
                              ![t].pc = "mirror"]
    /\ UNCHANGED <<guild, member_roles, cfg, env, queue, log, view_store,
                   epoch, acks, add_roles_calls, interaction, events>>
    /\ UNCHANGED <<besideConc, cardVars, evalVars, dmVars, textVars, fetchVars>>

\* auto-mc after the POST: the log post, the mirrored role and the response
PromoteMirrors(t, add_result, log_result) ==
    /\ tasks[t].pc = "mirror"
    /\ \E b \in {BridgeRequest(tasks[t].inv.user, Who(tasks[t].inv), Steve,
                              tasks[t].rank, tasks[t].bridge, add_result,
                              log_result)} :
          /\ (~b.called => add_result = "ok")
          /\ log' = b.run.lg
          /\ add_roles_calls' = add_roles_calls + (IF b.called THEN 1 ELSE 0)
          /\ member_roles' =
                IF b.granted
                THEN [member_roles EXCEPT
                         ![Who(tasks[t].inv)] = @ \cup {tasks[t].rank}]
                ELSE member_roles
          /\ tasks' = [tasks EXCEPT
                         ![t].add = add_result, ![t].log = log_result,
                         ![t].pc = "done",
                         ![t].kind = IF b.run.raised THEN "raised"
                                     ELSE IF b.ok THEN "AutoPromoted"
                                     ELSE "BridgeError"]
    /\ UNCHANGED <<guild, cfg, env, queue, view_store, epoch, acks,
                   bridge_posts, bridge_request, interaction, events>>
    /\ UNCHANGED <<besideConc, cardVars, evalVars, dmVars, textVars, fetchVars>>

\* the guild has both roles below the bot's top role, or lacks one of them;
\* the log channel is set or not; the process runs in either mode
ConcInit ==
    /\ BesideConcIdle
    /\ CardIdle
    /\ EvalIdle
    /\ DmIdle
    /\ TextIdle
    /\ FetchIdle
    /\ guild \in {g \in Guilds : g.bot_manage_roles /\ g.bot_top = 3}
    /\ member_roles = NoRoles
    /\ cfg \in [log_channel_id : {None, "log-channel"},
                 promotion_channel_id : {"queue-channel"}]
    /\ env \in {[mode |-> m, bridge_url |-> BridgeUrl, bridge_token |-> None] :
                   m \in VALID_MODES}
    /\ queue = ConcCards
    /\ log = <<>>
    /\ view_store = StartupViews
    /\ epoch = 0
    /\ acks = [i \in 1..Len(ConcCards) |-> <<>>]
    /\ bridge_posts = <<>>
    /\ bridge_request = NoRequest
    /\ add_roles_calls = 0
    /\ interaction = NoInteraction
    /\ events = 0
    /\ tasks \in [1..InFlight -> {Started(inv) : inv \in Invocations}]

ConcNext ==
    \E t \in 1..InFlight :
        \/ ApproveChecks(t)
        \/ \E add_result \in AddResults : ApproveAddRoles(t, add_result)
        \/ \E log_result \in SendResults : ApproveLogs(t, log_result)
        \/ \E log_result \in SendResults : RejectRuns(t, log_result)
        \/ PromoteAsks(t)
        \/ \E fetched \in FetchResults : PromoteDecides(t, fetched)
        \/ \E r1 \in SendResults, r2 \in SendResults, r3 \in SendResults,
              log_result \in SendResults :
                PromoteQueues(t, r1, r2, r3, log_result)
        \/ \E resp \in BridgeAnswers : PromoteBridged(t, resp)
        \/ \E add_result \in AddResults, log_result \in SendResults :
                PromoteMirrors(t, add_result, log_result)

SpecConc == ConcInit /\ [][ConcNext]_vars

-----------------------------------------------------------------------------
(* SpecRetry: one call of _fetch_json, followed through its loop *)

\* the largest `attempts` a call is made with
MaxAttempts == 3

\* backoff in units of 0.15 s: 0.6 s (SkyHelper) and 0.75 s (the default)
Backoffs == {4, 5}

\* the call enters its loop: `for i in range(attempts)` with no request made
\* and no exception kept
RetryInit ==
    /\ CardIdle
    /\ EvalIdle
    /\ WorkIdle
    /\ DmIdle
    /\ TextIdle
    /\ FetchIdle
    /\ BesideRetryIdle
    /\ retry \in {[pc |-> "loop", attempts |-> a, backoff |-> b, i |-> 0,
                   requests |-> 0, waits |-> <<>>, last_exc |-> "none",
                   data |-> "none", answers |-> <<>>] :
                     a \in 1..MaxAttempts, b \in Backoffs}

\* session.get(url), raise_for_status(), resp.json(): the answer is returned,
\* or its exception is kept in last_exc
session_get(answer) ==
    /\ retry.pc = "loop"
    /\ retry' = [retry EXCEPT
                   !.requests = @ + 1,
                   !.answers = Append(@, answer),
                   !.data = IF answer \in Returns THEN answer ELSE @,
                   !.last_exc = IF answer \in Returns THEN @
                                ELSE ExceptionOf(answer),
                   !.pc = IF answer \in Returns THEN "returned" ELSE "except"]
    /\ UNCHANGED <<flowVars, besideRetry>>

\* variant: the wait grows by one backoff per failure instead of doubling
asyncio_sleep_linear ==
    /\ retry.pc = "except"
    /\ retry' = [retry EXCEPT
                   !.waits = Append(@, retry.backoff * (retry.i + 1)),
                   !.i = @ + 1,
                   !.pc = IF retry.i + 1 < retry.attempts THEN "loop"
                          ELSE "raised"]
    /\ UNCHANGED <<flowVars, besideRetry>>

\* `await asyncio.sleep(backoff * (2 ** i))` in the except clause, then the
\* next round of the loop or, after the last round, `raise last_exc`
asyncio_sleep ==
    /\ retry.pc = "except"
    /\ retry' = [retry EXCEPT
                   !.waits = Append(@, retry.backoff * (2 ^ retry.i)),
                   !.i = @ + 1,
                   !.pc = IF retry.i + 1 < retry.attempts THEN "loop"
                          ELSE "raised"]
    /\ UNCHANGED <<flowVars, besideRetry>>

RetryNext ==
    \/ \E answer \in Answers : session_get(answer)
    \/ asyncio_sleep

SpecRetry == RetryInit /\ [][RetryNext]_vars

-----------------------------------------------------------------------------
(* SpecPick: get_sb_stats selects the latest profile *)

\* the longest profile list looked through
MaxProfiles == 2

\* the largest last_save
MaxSave == 2

\* a value found under a last_save key: absent (None), an integer, or a
\* text that int() rejects
Absent == [kind |-> "absent", val |-> 0]
Junk == [kind |-> "text", val |-> 0]
SaveValues == {Absent, Junk} \cup {[kind |-> "int", val |-> n] : n \in 0..MaxSave}

\* a profile carries last_save under data, at the top or under member
Profiles == [data : SaveValues, top : SaveValues, member : SaveValues]

\* Python's truth of a value: None and 0 are false
Truthy(v) == v.kind = "text" \/ (v.kind = "int" /\ v.val # 0)

\* `a or b or c`: the first true operand, or the last operand
LastOf(p) ==
    IF Truthy(p.data) THEN p.data
    ELSE IF Truthy(p.top) THEN p.top
    ELSE p.member

\* `ts = int(last) if last is not None else -1`, -1 when int() raises
TsOf(p) == IF LastOf(p).kind = "int" THEN LastOf(p).val ELSE -1

RECURSIVE PickFrom(_, _, _, _)
\* the loop of _pick_latest_profile from its k-th round on; `latest` is the
\* index of the profile kept so far, 0 for None
PickFrom(profiles, k, latest, latest_ts) ==
    IF k > Len(profiles) THEN latest
    ELSE IF TsOf(profiles[k]) > latest_ts
    THEN PickFrom(profiles, k + 1, k, TsOf(profiles[k]))
    ELSE PickFrom(profiles, k + 1, latest, latest_ts)

\* _pick_latest_profile(profiles): latest = None, latest_ts = -1
_pick_latest_profile(profiles) == PickFrom(profiles, 1, 0, -1)

\* SkyHelper has answered with a list of profiles
PickInit ==
    /\ CardIdle
    /\ EvalIdle
    /\ WorkIdle
    /\ DmIdle
    /\ TextIdle
    /\ FetchIdle
    /\ BesidePickIdle
    /\ \E n \in 0..MaxProfiles :
          pick \in {[pc |-> "profiles", profiles |-> ps, latest |-> 0,
                     error |-> "none"] : ps \in [1..n -> Profiles]}

\* the end of get_sb_stats: `if not profiles`, _pick_latest_profile,
\* `if not latest`, then the stats of the selected profile
SelectLatest ==
    /\ pick.pc = "profiles"
    /\ \E latest \in {_pick_latest_profile(pick.profiles)} :
          pick' = [pick EXCEPT
                     !.latest = latest,
                     !.pc = IF pick.profiles = <<>> \/ latest = 0
                            THEN "raised" ELSE "stats",
                     !.error = IF pick.profiles = <<>>
                               THEN "SkyHelper API returned no profiles"
                               ELSE IF latest = 0
                               THEN "Could not select latest profile"
                               ELSE "none"]
    /\ UNCHANGED <<flowVars, besidePick>>

PickNext == SelectLatest

SpecPick == PickInit /\ [][PickNext]_vars

-----------------------------------------------------------------------------
(* SpecSync: /ranksync.  Roles are named by their ids 1..4, which are also
   their positions in the hierarchy; Hypixel ranks are numbered 1..3, rank 4
   is one no mapping names, rank 0 the empty rank text *)

MaxRuns == 2

RoleIds == 1..4
HypRanks == 1..3

\* cfg["rank_role_map"]: per rank a role id, or 0 where the rank is not mapped
RankRoleMaps ==
    {<<1, 2, 3>>, <<1, 1, 2>>, <<2, 0, 3>>}

\* how the two lookups and the member search end
SyncLookups == {"ok", "raised", "NotOnMojang", "NoGuild", "NotInList"}

\* the platform's answer to one role request; a role at or above the bot's
\* top role, or any role while the bot lacks Manage Roles, is refused
RoleAnswers(s, role) ==
    IF role >= s.top_role \/ ~s.manage_roles THEN {"Forbidden"}
    ELSE {"ok", "Forbidden", "HTTPException"}

RECURSIVE Ascending(_)
\* member.roles is ordered by position: the roles of S in ascending order
Ascending(S) ==
    IF S = {} THEN <<>>
    ELSE LET lo == CHOOSE x \in S : \A y \in S : x <= y
         IN  <<lo>> \o Ascending(S \ {lo})

\* the role ids the mapping names: `set(int(v) for v in mapping.values() if v)`
MappedRoleIds(mapping) == {mapping[k] : k \in DOMAIN mapping} \ {0}

SyncInit ==
    /\ CardIdle
    /\ EvalIdle
    /\ WorkIdle
    /\ DmIdle
    /\ TextIdle
    /\ FetchIdle
    /\ BesideSyncIdle
    /\ sync \in {[pc |-> "idle", held |-> h, before |-> h, mapping |-> mp,
                  exists |-> ex, manage_roles |-> mr, top_role |-> tr,
                  hyp_rank |-> 0, role |-> 0, to_remove |-> <<>>,
                  reply |-> "none", runs |-> 0] :
                    h \in SUBSET RoleIds, mp \in RankRoleMaps,
                    ex \in {RoleIds, RoleIds \ {2}}, mr \in BOOLEAN,
                    tr \in {3, 5}}

\* /ranksync up to the first role request: the lookups, the mapping, the
\* checks of the target role, and the list of roles to remove
ranksync(lookup, hyp_rank) ==
    /\ sync.pc \in {"idle", "done"}
    /\ sync.runs < MaxRuns
    /\ LET role_id == IF hyp_rank \in DOMAIN sync.mapping
                      THEN sync.mapping[hyp_rank] ELSE 0
           early == IF lookup # "ok" THEN lookup
                    ELSE IF hyp_rank = 0 THEN "NoRank"
                    ELSE IF role_id = 0 THEN "NotMapped"
                    ELSE IF role_id \notin sync.exists THEN "RoleGone"
                    ELSE IF ~sync.manage_roles THEN "BotNeedsManageRoles"
                    ELSE IF role_id >= sync.top_role THEN "RoleTooHigh"
                    ELSE "none"
           roles_to_remove ==
               Ascending({r \in sync.held :
                             r \in MappedRoleIds(sync.mapping) /\ r # role_id})
       IN  sync' = [sync EXCEPT
                      !.runs = @ + 1,
                      !.before = sync.held,
                      !.hyp_rank = hyp_rank,
                      !.role = IF early = "none" THEN role_id ELSE 0,
                      !.to_remove = IF early = "none" THEN roles_to_remove
                                    ELSE <<>>,
                      !.reply = IF early # "none" THEN early
                                ELSE IF roles_to_remove = <<>>
                                        /\ role_id \in sync.held
                                THEN "Synced"
                                ELSE "none",
                      !.pc = IF early # "none" THEN "done"
                             ELSE IF roles_to_remove # <<>> THEN "remove_roles"
                             ELSE IF role_id \notin sync.held THEN "add_roles"
                             ELSE "done"]
    /\ UNCHANGED <<flowVars, besideSync>>

\* variant: only the first of the roles to remove is removed
remove_roles_firstOnly(answer) ==
    /\ sync.pc = "remove_roles"
    /\ answer \in RoleAnswers(sync, Head(sync.to_remove))
    /\ sync' = [sync EXCEPT
                  !.held = IF answer = "ok" /\ sync.held = sync.before
                           THEN @ \ {Head(sync.to_remove)}
                           ELSE @,
                  !.to_remove = IF answer = "ok" THEN Tail(@) ELSE @,
                  !.reply = IF answer = "Forbidden" THEN "CannotEditRoles"
                            ELSE IF answer = "HTTPException" THEN "raised"
                            ELSE IF Tail(sync.to_remove) = <<>>
                                    /\ sync.role \in sync.held
                            THEN "Synced"
                            ELSE @,
                  !.pc = IF answer # "ok" THEN "done"
                         ELSE IF Tail(sync.to_remove) # <<>> THEN "remove_roles"
                         ELSE IF sync.role \notin sync.held THEN "add_roles"
                         ELSE "done"]
    /\ UNCHANGED <<flowVars, besideSync>>

\* member.remove_roles(*roles_to_remove): one request per role, in order;
\* Forbidden ends the run with the permission error, any other failure
\* leaves the handler
remove_roles(answer) ==
    /\ sync.pc = "remove_roles"
    /\ answer \in RoleAnswers(sync, Head(sync.to_remove))
    /\ sync' = [sync EXCEPT
                  !.held = IF answer = "ok" THEN @ \ {Head(sync.to_remove)}
                           ELSE @,
                  !.to_remove = IF answer = "ok" THEN Tail(@) ELSE @,
                  !.reply = IF answer = "Forbidden" THEN "CannotEditRoles"
                            ELSE IF answer = "HTTPException" THEN "raised"
                            ELSE IF Tail(sync.to_remove) = <<>>
                                    /\ sync.role \in sync.held
                            THEN "Synced"
                            ELSE @,
                  !.pc = IF answer # "ok" THEN "done"
                         ELSE IF Tail(sync.to_remove) # <<>> THEN "remove_roles"
                         ELSE IF sync.role \notin sync.held THEN "add_roles"
                         ELSE "done"]
    /\ UNCHANGED <<flowVars, besideSync>>

\* member.add_roles(role), then the success response
add_roles(answer) ==
    /\ sync.pc = "add_roles"
    /\ answer \in RoleAnswers(sync, sync.role)
    /\ sync' = [sync EXCEPT
                  !.held = IF answer = "ok" THEN @ \cup {sync.role} ELSE @,
                  !.reply = IF answer = "ok" THEN "Synced"
                            ELSE IF answer = "Forbidden" THEN "CannotEditRoles"
                            ELSE "raised",
                  !.pc = "done"]
    /\ UNCHANGED <<flowVars, besideSync>>

SyncNext ==
    \/ \E lookup \in SyncLookups, hyp_rank \in 0..4 : ranksync(lookup, hyp_rank)
    \/ \E answer \in {"ok", "Forbidden", "HTTPException"} : remove_roles(answer)
    \/ \E answer \in {"ok", "Forbidden", "HTTPException"} : add_roles(answer)

SpecSync == SyncInit /\ [][SyncNext]_vars

-----------------------------------------------------------------------------
(* SpecVerify: the verification modal (VerifyModal.on_submit) and the
   cooldown module, which the modal never calls: a behaviour follows either a
   member who verifies or one question put to remaining_cooldown.  Names and tags are texts over a few characters; the
   empty text stands for None as well: every test the code makes of them
   (`if uname`, `s or ""`, `not linked_tag`) treats the two alike. *)

\* the seconds between two attempts of the member
MaxElapsed == 1

\* the largest time since the last stamp, in quarters of a second
MaxDelta == 10

\* the attempts one member makes
MaxSubmits == 2

\* the IGNs the member may enter
Igns == {<<"i">>}

\* str.casefold on the letters used here
Casefold(c) ==
    CASE c = "A" -> "a"
      [] c = "B" -> "b"
      [] OTHER -> c

\* _norm / norm: `(s or "").strip().casefold()`
norm(s) == [i \in 1..Len(strip(s)) |-> Casefold(strip(s)[i])]

\* the username of the member who submits the modal, and the username of
\* another Discord account; usernames are unique, and <<"c">> is the
\* username of a third account
UserName == <<"a">>
OtherName == <<"b">>

\* what the member chose as global display name and as server nickname
GlobalNames == {<<>>, <<"b">>}
Nicks == {<<>>, <<"B">>}
Discriminators == {<<>>, <<"1">>}

\* socialMedia.links.DISCORD of the Hypixel account of the entered IGN
LinkedTags ==
    {<<>>, <<" ">>, <<" ", "A">>, <<"a", "#", "1">>, <<"@", "B">>, <<"c">>}

\* Member.display_name: the nickname, else the global name, else the username
DisplayName(v) ==
    IF v.nick # <<>> THEN v.nick
    ELSE IF v.global_name # <<>> THEN v.global_name
    ELSE UserName

\* candidate_discord_names(member); discriminator <<>> is "0", the
\* discriminator of every account with a unique username
candidate_discord_names(v) ==
    LET parts == ({UserName, v.global_name, DisplayName(v)} \ {<<>>})
                    \cup (IF v.discriminator # <<>>
                          THEN {UserName \o <<"#">> \o v.discriminator}
                          ELSE {})
    IN  {norm(p) : p \in parts \cup {<<"@">> \o x : x \in parts}}

\* the tag names the account with username `name` and discriminator `disc`:
\* it is the username, with or without @ and the discriminator
Names(tag, name, disc) ==
    norm(tag) \in {name, <<"@">> \o name}
                     \cup (IF disc # <<>>
                           THEN {name \o <<"#">> \o disc,
                                 <<"@">> \o name \o <<"#">> \o disc}
                           ELSE {})

\* round(x) for x = q / 4, q >= 0: to the nearest integer, halves to even
Round4(q) ==
    LET f == q \div 4
        r == q % 4
    IN  IF r < 2 THEN f
        ELSE IF r > 2 THEN f + 1
        ELSE IF f % 2 = 0 THEN f ELSE f + 1

\* remaining_cooldown: cooldown_seconds in seconds, delta = now - last in
\* quarters of a second
remaining_cooldown(cooldown_seconds, delta) ==
    IF cooldown_seconds <= 0 THEN 0
    ELSE IF delta < 4 * cooldown_seconds
    THEN Round4(4 * cooldown_seconds - delta)
    ELSE 0

VerifyInit ==
    /\ CardIdle
    /\ EvalIdle
    /\ WorkIdle
    /\ DmIdle
    /\ TextIdle
    /\ FetchIdle
    /\ BesideVerifyIdle
    /\ \/ /\ verify \in {[pc |-> "ready", global_name |-> g, nick |-> n,
                          discriminator |-> d, cooldown_seconds |-> cs,
                          attempts |-> 0, elapsed |-> 0, ign |-> <<>>,
                          linked |-> <<>>, lookups |-> 0,
                          nick_edited |-> FALSE, role_granted |-> FALSE,
                          has_role |-> FALSE, reply |-> "none"] :
                            g \in GlobalNames, n \in Nicks,
                            d \in Discriminators, cs \in {0, 1}}
          /\ cooldown = [pc |-> "idle", cooldown_seconds |-> 0, delta |-> 0,
                         remaining |-> 0]
       \/ /\ verify = [pc |-> "idle", global_name |-> <<>>, nick |-> <<>>,
                       discriminator |-> <<>>, cooldown_seconds |-> 0,
                       attempts |-> 0, elapsed |-> 0, ign |-> <<>>,
                       linked |-> <<>>, lookups |-> 0, nick_edited |-> FALSE,
                       role_granted |-> FALSE, has_role |-> FALSE,
                       reply |-> "none"]
          /\ cooldown \in {[pc |-> "asked", cooldown_seconds |-> cs,
                            delta |-> dl, remaining |-> 0] :
                              cs \in -1..2, dl \in 0..MaxDelta}

\* VerifyModal.on_submit, `elapsed` seconds after the member's previous
\* attempt, for the IGN `ign` whose Hypixel account links `linked`:
\*   mojang, hypixel   how the two lookups end
\*   may_nick          the bot has Manage Nicknames
\*   role_ok           a verified role is configured, exists and is below
\*                     the bot's top role, and the bot has Manage Roles
\*   nick_result, role_result, log_result   the platform's answers
on_submit(elapsed, ign, linked, mojang, hypixel, may_nick, role_ok, nick_result, role_result, log_result) ==
    /\ verify.pc \in {"ready", "done"}
    /\ verify.attempts < MaxSubmits
    /\ verify.attempts = 0 => elapsed = 0
    /\ LET early == IF mojang = "raised" THEN "MojangError"
                    ELSE IF mojang = "None" THEN "NotFound"
                    ELSE IF hypixel = "raised" THEN "HypixelError"
                    ELSE IF linked = <<>> \/ norm(linked) = <<>> THEN "NoLink"
                    ELSE IF norm(linked) \notin candidate_discord_names(verify)
                    THEN "LinkedToAnother"
                    ELSE "none"
           edits == early = "none" /\ may_nick /\ verify.nick # ign
                       /\ nick_result = "ok"
           grants == early = "none" /\ role_ok /\ ~verify.has_role
                        /\ role_result = "ok"
       IN  verify' = [verify EXCEPT
                        !.pc = "done",
                        !.attempts = @ + 1,
                        !.elapsed = elapsed,
                        !.ign = ign,
                        !.linked = linked,
                        !.lookups = IF mojang = "uuid" THEN 2 ELSE 1,
                        !.nick = IF edits THEN ign ELSE @,
                        !.nick_edited = edits,
                        !.role_granted = grants,
                        !.has_role = @ \/ grants,
                        !.reply = IF early # "none" THEN early
                                  ELSE IF log_result # "ok" THEN "raised"
                                  ELSE "Verified"]
    /\ UNCHANGED <<flowVars, besideVerify, cooldown>>

\* the question is put to remaining_cooldown
AskCooldown ==
    /\ cooldown.pc = "asked"
    /\ cooldown' = [cooldown EXCEPT
                      !.pc = "answered",
                      !.remaining = remaining_cooldown(cooldown.cooldown_seconds,
                                                       cooldown.delta)]
    /\ UNCHANGED <<flowVars, besideVerify, verify>>

\* the platform answers only the calls on_submit makes
Asked(made) == IF made THEN {"ok", "Forbidden"} ELSE {"ok"}

VerifyNext ==
    \/ \E elapsed \in IF verify.attempts = 0 THEN {0} ELSE 0..MaxElapsed,
          ign \in Igns, mojang \in {"uuid", "None", "raised"} :
         \E hypixel \in IF mojang = "uuid" THEN {"ok", "raised"} ELSE {"ok"} :
          \E linked \in IF mojang = "uuid" /\ hypixel = "ok"
                         THEN LinkedTags ELSE {<<>>} :
           LET passes == /\ mojang = "uuid"
                         /\ hypixel = "ok"
                         /\ norm(linked) # <<>>
                         /\ norm(linked) \in candidate_discord_names(verify)
           IN  \E may_nick \in IF passes THEN BOOLEAN ELSE {FALSE},
                  role_ok \in IF passes THEN BOOLEAN ELSE {FALSE} :
                \E nick_result \in Asked(may_nick /\ verify.nick # ign),
                   role_result \in Asked(role_ok /\ ~verify.has_role),
                   log_result \in IF passes THEN SendResults ELSE {"ok"} :
                    on_submit(elapsed, ign, linked, mojang, hypixel, may_nick,
                              role_ok, nick_result, role_result, log_result)
    \/ AskCooldown

SpecVerify == VerifyInit /\ [][VerifyNext]_vars

-----------------------------------------------------------------------------
(* Properties of the requirement evaluation (under SpecEval) *)

\* the seven checks in their fixed order, as the entries they report
CheckEntries(rq) ==
    <<FailNetworth(rq), FailSbLevel(rq), FailSkillAvg(rq), FailSlayerXp(rq),
      FailCataLvl(rq), FailRift(rq), FailFarmWeight(rq)>>

\* whether the i-th check fails: a stat strictly below its threshold; rift
\* charms only when the requirement is "all" and the player lacks them
CheckFails(st, rq, i) ==
    CASE i = 1 -> st.networth < rq.networth
      [] i = 2 -> st.sb_level < rq.sb_level
      [] i = 3 -> st.skill_avg < rq.skill_avg
      [] i = 4 -> st.slayer_xp < rq.slayer_xp
      [] i = 5 -> st.cata_lvl < rq.cata_lvl
      [] i = 6 -> rq.rift_charms = "all" /\ ~st.rift_all_charms
      [] OTHER -> st.farm_weight < rq.farm_weight

FailingChecks == {i \in 1..7 : CheckFails(stats, reqs, i)}

\* a sequence lists exactly the checks of F, once each, in increasing order
ListsExactly(f, F) ==
    /\ Len(f) = Cardinality(F)
    /\ \A i \in F : \E k \in 1..Len(f) : f[k] = CheckEntries(reqs)[i]
    /\ \A k \in 1..Len(f) : \A l \in 1..Len(f) : k < l =>
          \E i \in F : \E j \in F :
              i < j /\ f[k] = CheckEntries(reqs)[i] /\ f[l] = CheckEntries(reqs)[j]

\* C6: a stats record failing at least one check ends requirements-not-met
\* with exactly the failing checks listed, once each, in the fixed order
C6_ExactFailingChecks ==
    (evalpc = "evaluated" /\ FailingChecks # {}) =>
        /\ decision.kind = "RequirementsNotMet"
        /\ ListsExactly(decision.failed, FailingChecks)

\* C6 witness: a later check fails together with an earlier one, while a
\* stat equal to its threshold passes
C6_Witness ==
    /\ evalpc = "evaluated"
    /\ FailingChecks = {2, 6, 7}
    /\ stats.networth = reqs.networth
    /\ Len(decision.failed) = 3

QualifyingThresholds ==
    {t \in DOMAIN rank_thresholds : t <= stats.masteries}

\* C7: with all requirements passed, the accepted rank is the one mapped to
\* the greatest threshold <= the mastery count
C7_HighestThresholdWins ==
    (evalpc = "evaluated" /\ FailingChecks = {} /\ QualifyingThresholds # {}) =>
        /\ decision.kind = "Accepted"
        /\ decision.rank = rank_thresholds[Max(QualifyingThresholds)]

\* C7 witness: the example table, a mastery count that reaches two thresholds
\* and misses the third
C7_Witness ==
    /\ evalpc = "evaluated"
    /\ rank_thresholds = ExampleTable
    /\ stats.masteries = 1
    /\ FailingChecks = {}
    /\ decision.kind = "Accepted"
    /\ decision.rank = RankElite

\* C8: with all requirements passed and the mastery count below every
\* threshold (or no threshold at all), the outcome is no-rank-mapping
C8_NoRankMapping ==
    (evalpc = "evaluated" /\ FailingChecks = {} /\ QualifyingThresholds = {}) =>
        /\ decision.kind = "NoRankMapping"
        /\ decision.kind # "RequirementsNotMet"
        /\ decision.kind # "Accepted"

\* C8 witness: a non-empty table whose every threshold is above the count
C8_Witness ==
    /\ evalpc = "evaluated"
    /\ FailingChecks = {}
    /\ DOMAIN rank_thresholds # {}
    /\ \A t \in DOMAIN rank_thresholds : stats.masteries < t
    /\ decision.kind = "NoRankMapping"

-----------------------------------------------------------------------------
(* Properties of the card text (under SpecCard) *)

\* characters that end or start markdown emphasis inside the bold field
MarkdownBreaking == {"*"}

NoMarkdownBreaking(s) == \A i \in 1..Len(s) : s[i] \notin MarkdownBreaking

RoundTrips ==
    /\ parsed.ign = [ok |-> TRUE, val |-> username]
    /\ parsed.rank = [ok |-> TRUE, val |-> role_name]

\* C9 as stated: every handle and rank name without markdown-breaking
\* characters is parsed back unchanged
C9_RoundTripAsStated ==
    (cardpc = "parsed" /\ NoMarkdownBreaking(username)
                       /\ NoMarkdownBreaking(role_name)) => RoundTrips

\* a text the bold field carries through unchanged: no star, no line break,
\* no whitespace at either end
FieldSafe(s) ==
    /\ NoMarkdownBreaking(s)
    /\ \A i \in 1..Len(s) : s[i] # "\n"
    /\ ~IsSpace(s[1])
    /\ ~IsSpace(s[Len(s)])

\* C9 amended: a (non-empty) handle and rank name without star or line break
\* and without leading or trailing whitespace, whose description fits in
\* DescLimit characters, are parsed back unchanged
C9_RoundTrip ==
    (cardpc = "parsed" /\ FieldSafe(username) /\ FieldSafe(role_name)
                       /\ Len(DescriptionText(username, role_name)) <= DescLimit)
        => RoundTrips

\* C9 witness: a handle with a blank inside has been rendered and parsed back
C9_Witness ==
    /\ cardpc = "parsed"
    /\ username = <<"a", " ", "a">>
    /\ FieldSafe(role_name)
    /\ RoundTrips


-----------------------------------------------------------------------------
(* Properties of the approval workflow (under Spec) *)

\* the step is a button press handled by approve or reject
HandlerStep ==
    /\ events' # events
    /\ interaction'.handler \in {"approve", "reject"}

Authorized(p) == p.manage_roles \/ p.administrator

\* the fields the approve handler reads off a card
CardFields(msg) ==
    IF msg.embeds = <<>> THEN NotParsed
    ELSE ParseDescription(msg.embeds[1].description)

\* the card names a rank whose role exists and which the bot may grant
Grantable(msg) ==
    /\ CardFields(msg).rank.ok
    /\ CardFields(msg).rank.val \in guild.roles
    /\ guild.bot_manage_roles
    /\ RolePosition(CardFields(msg).rank.val) < guild.bot_top

\* C2: every message posted by safe_queue_send that carries the approve and
\* reject controls carries, in that same message, the IGN and Target Rank
\* fields and exactly one mention, that of the request's target member
C2_CardCarriesFieldsAndMention ==
    \A i \in 1..Len(queue) :
        (queue[i].posted_by = "promote" /\ HasControls(queue[i])) =>
            /\ CardFields(queue[i]).ign.ok
            /\ CardFields(queue[i]).ign.val \in PromoteHandles
            /\ CardFields(queue[i]).rank.ok
            /\ CardFields(queue[i]).rank.val \in RankNames
            /\ queue[i].mentions = <<queue[i].request_for>>

\* C1: once an authorized reviewer has pressed approve on a card that /promote
\* queued, and the card's rank names a role the bot may grant, the request's
\* target member holds that role, the request is Approved and the reviewer
\* has been acknowledged
C1_ApproveGrantsQueuedRequest ==
    (/\ interaction.handler = "approve"
     /\ Authorized(interaction.perms)
     /\ queue[interaction.card].posted_by = "promote"
     /\ Grantable(queue[interaction.card]))
        => /\ interaction.kind = "Approved"
           /\ CardFields(queue[interaction.card]).rank.val
                 \in member_roles[queue[interaction.card].request_for]
           /\ acks[interaction.card] # <<>>

\* C3: a press of approve or reject by a reviewer holding neither Manage
\* Roles nor Administrator is answered with the permission error and changes
\* nothing: no member's roles, no audit-log entry, no message, no resolution
C3_UnauthorizedChangesNothing ==
    [][(HandlerStep /\ ~Authorized(interaction'.perms)) =>
            /\ interaction'.kind = "NeedManageRoles"
            /\ member_roles' = member_roles
            /\ add_roles_calls' = add_roles_calls
            /\ log' = log
            /\ queue' = queue
            /\ acks' = acks]_vars

\* C3 witness: a reviewer without either permission pressed approve on a
\* complete card whose role the bot could have granted, with a log channel set
C3_Witness ==
    /\ interaction.handler = "approve"
    /\ ~Authorized(interaction.perms)
    /\ interaction.kind = "NeedManageRoles"
    /\ queue[interaction.card].mentions # <<>>
    /\ CardFields(queue[interaction.card]).ign.ok
    /\ Grantable(queue[interaction.card])
    /\ log_ch
    /\ member_roles = [m \in Members |-> {}]
    /\ log = <<>>

ApproveOutcomes(g, roles, lc, msg, p) ==
    LET smooth == ApproveOutcome(g, roles, lc, msg, p, "ok", "ok")
    IN  [a \in AddAnswers(smooth) \X LogAnswers(smooth) |->
            ApproveOutcome(g, roles, lc, msg, p, a[1], a[2])]

\* likewise for a press of reject
RejectOutcomes(lc, msg, p) ==
    LET smooth == RejectOutcome(lc, msg, p, "ok")
    IN  [l \in LogAnswers(smooth) |-> RejectOutcome(lc, msg, p, l)]

\* C5: across a restart, for every message and reviewer permission, a press
\* of approve or reject is routed as before and has the same outcome
\* (response, role granted or not, audit entry or not) for every answer of
\* the platform as it would have had before the restart
C5_RestartPreservesOutcomes ==
    [][epoch' # epoch =>
          \E q \in {queue'}, g \in {guild'}, roles \in {member_roles'},
             lc \in {log_ch'} :
              /\ Len(q) = Len(queue)
              /\ \A i \in 1..Len(queue) :
                  /\ Dispatchable(i)' = Dispatchable(i)
                  /\ Dispatchable(i) =>
                       \A p \in Permissions :
                          /\ ApproveOutcomes(g, roles, lc, q[i], p)
                               = ApproveOutcomes(guild, member_roles, log_ch,
                                                 queue[i], p)
                          /\ RejectOutcomes(lc, q[i], p)
                               = RejectOutcomes(log_ch, queue[i], p)
       ]_vars

\* C5 witness: a card queued by /promote before a restart, whose stored view
\* went with the old process, has been rejected after the restart
C5_Witness ==
    /\ epoch = 1
    /\ interaction.handler = "reject"
    /\ interaction.kind = "Rejected"
    /\ queue[interaction.card].posted_by = "promote"
    /\ interaction.card \notin view_store

\* the card passes every check of approve up to the role assignment
PassesChecks(msg) ==
    /\ CardFields(msg).ign.ok
    /\ msg.mentions # <<>>
    /\ Grantable(msg)

WellFormed(msg) ==
    /\ CardFields(msg).ign.ok
    /\ CardFields(msg).rank.ok
    /\ msg.mentions # <<>>

\* the step changes no role, issues no add_roles call, writes no audit-log
\* entry and resolves no request
MutatesNothing ==
    /\ member_roles' = member_roles
    /\ add_roles_calls' = add_roles_calls
    /\ log' = log
    /\ queue' = queue
    /\ acks' = acks

\* C11: an authorized approve of a well-formed card whose rank names no guild
\* role, or while the bot lacks Manage Roles, or whose role is not strictly
\* below the bot's top role, answers with the error of the first of these
\* that applies and mutates nothing
C11_RoleErrorsMutateNothing ==
    [][(/\ HandlerStep
        /\ interaction'.handler = "approve"
        /\ Authorized(interaction'.perms)
        /\ WellFormed(queue[interaction'.card])
        /\ ~Grantable(queue[interaction'.card]))
          => /\ MutatesNothing
             /\ interaction'.kind =
                  (IF CardFields(queue[interaction'.card]).rank.val
                         \notin guild.roles
                   THEN "RoleNotFound"
                   ELSE IF ~guild.bot_manage_roles THEN "BotNeedsManageRoles"
                   ELSE "RoleTooHigh")
       ]_vars

\* C11 witness: the card's role is the bot's top role itself, approve by an
\* authorized reviewer was refused, and nobody holds a role
C11_Witness ==
    /\ interaction.handler = "approve"
    /\ Authorized(interaction.perms)
    /\ interaction.kind = "RoleTooHigh"
    /\ RolePosition(interaction.role) = guild.bot_top
    /\ log_ch
    /\ log = <<>>
    /\ member_roles = [m \in Members |-> {}]


C13_RejectKeepsRoles ==
    [][(HandlerStep /\ interaction'.handler = "reject") =>
            /\ member_roles' = member_roles
            /\ add_roles_calls' = add_roles_calls]_vars

\* C13 witness: an authorized reviewer rejected a well-formed card whose role
\* the bot could have granted to the mentioned member
C13_Witness ==
    /\ interaction.handler = "reject"
    /\ interaction.kind = "Rejected"
    /\ WellFormed(queue[interaction.card])
    /\ Grantable(queue[interaction.card])
    /\ member_roles = [m \in Members |-> {}]


\* message i of the queue is the plain-text note safe_queue_send posts when
\* the rich card was refused
IsFallbackNote(msg) ==
    /\ msg.posted_by = "promote"
    /\ \E k \in 1..Len(msg.content) : msg.content[k].part = "text"

\* C14: the plain-text fallback that safe_queue_send posts when the rich card
\* is refused carries the target's mention and can be resolved: a press of
\* approve or reject on it reaches the handlers
C14_FallbackIsResolvable ==
    \A i \in 1..Len(queue) :
        IsFallbackNote(queue[i]) =>
            /\ queue[i].mentions = <<queue[i].request_for>>
            /\ Dispatchable(i)

-----------------------------------------------------------------------------
(* Properties of /promote (under SpecPromote) *)

\* the step is a run of /promote
PromoteStep ==
    /\ events' # events
    /\ interaction'.handler = "promote"

\* the run passed the stats fetch, the requirement checks and the rank lookup
PassedEvaluation ==
    interaction'.kind \notin {"StatsError", "RequirementsNotMet", "NoRankMapping"}

\* the messages of a channel that the step added
Added(before, after) == SubSeq(after, Len(before) + 1, Len(after))

\* the queue posts the run attempted: the card, the fallback note if the
\* card was refused, the ping; and those of them the platform refused
QueuePostsFailed ==
    LET new == Added(queue, queue')
        cardPosted == \E k \in 1..Len(new) : new[k].view
    IN  (IF cardPosted THEN 2 ELSE 3) - Len(new)

\* the audit-log entries the step added that report a refused queue post
FailureEntries ==
    LET isFailure(e) == e.kind \in {"queue.send(embed+view) failed",
                                    "queue.send(text-only) failed",
                                    "queue.send(mention) failed"}
    IN  Len(SelectSeq(Added(log, log'), isFailure))

\* the run got as far as posting to the queue channel
ReachedQueue ==
    /\ env.mode = "discord-only"
    /\ interaction'.kind \in {"Queued", "raised"}

\* C15: whichever of the queue posts the platform refuses, /promote does not
\* raise, the requester receives the response, and with a log channel set
\* each refused post has its audit-log entry
C15_QueueFailuresNeverRaise ==
    [][(PromoteStep /\ ReachedQueue) =>
            /\ interaction'.kind = "Queued"
            /\ log_ch => FailureEntries = QueuePostsFailed]_vars


\* the run issued a POST to the bridge and this was the answer
BridgeAnswered(a) == bridge_posts' = Append(bridge_posts, a)

\* C16: when the bridge answers with a non-2xx status, or the POST fails or
\* times out, the requester receives the bridge error, no add_roles call is
\* made and every member's roles are as before
C16_BridgeFailureLeavesRoles ==
    [][(PromoteStep /\ (BridgeAnswered("non2xx") \/ BridgeAnswered("error"))) =>
            /\ interaction'.kind = "BridgeError"
            /\ add_roles_calls' = add_roles_calls
            /\ member_roles' = member_roles]_vars

\* C17: when the bridge answers 2xx the requester receives the success
\* message whatever happens to the local role grant, and /promote does not
\* raise
C17_MirroringNeverFlipsSuccess ==
    [][(PromoteStep /\ BridgeAnswered("2xx")) =>
            interaction'.kind = "AutoPromoted"]_vars

\* C18: a run of /promote issues at most one POST to the bridge, none
\* outside auto-mc mode, and exactly one in auto-mc mode when the bridge URL
\* is set and the run passed the evaluation
C18_AtMostOnePost ==
    [][PromoteStep =>
            /\ Len(bridge_posts') <= Len(bridge_posts) + 1
            /\ env.mode # "auto-mc" => bridge_posts' = bridge_posts
            /\ (env.mode = "auto-mc" /\ env.bridge_url # None /\ PassedEvaluation)
                  => Len(bridge_posts') = Len(bridge_posts) + 1]_vars

\* C18 witness: two runs, the first POST failed, the second went through,
\* and one POST was issued for each
C18_Witness ==
    /\ events = 2
    /\ bridge_posts = <<"error", "2xx">>
    /\ interaction.kind = "AutoPromoted"

\* the destination the mode needs is not configured
DestinationMissing ==
    \/ env.mode = "discord-only" /\ cfg.promotion_channel_id = None
    \/ env.mode = "auto-mc" /\ env.bridge_url = None

\* C19: a run of /promote that passed the evaluation while the destination
\* of its mode is not configured ends with the configuration message of that
\* mode, posts nothing, calls neither the bridge nor add_roles and changes
\* no role
C19_MissingDestination ==
    [][(PromoteStep /\ PassedEvaluation /\ DestinationMissing) =>
            /\ interaction'.kind = (IF env.mode = "discord-only"
                                    THEN "NoQueueChannel" ELSE "BridgeUrlMissing")
            /\ queue' = queue
            /\ log' = log
            /\ bridge_posts' = bridge_posts
            /\ add_roles_calls' = add_roles_calls
            /\ member_roles' = member_roles]_vars

\* C19 witness: auto-mc mode without bridge URL, in a guild with queue and log
\* channel configured: the run ended with the configuration message
C19_Witness ==
    /\ env.mode = "auto-mc"
    /\ env.bridge_url = None
    /\ cfg.promotion_channel_id # None
    /\ log_ch
    /\ interaction.kind = "BridgeUrlMissing"
    /\ queue = <<>>
    /\ bridge_posts = <<>>


-----------------------------------------------------------------------------
(* Properties of the DM throttle (under SpecDM) *)

\* C20: any two consecutive starts of member.send, by whichever joining
\* members and however the earlier one ended, are at least DM_INTERVAL apart
C20_DispatchesSpaced ==
    \A k \in 2..Len(dm_starts) : dm_starts[k] - dm_starts[k - 1] >= DM_INTERVAL

-----------------------------------------------------------------------------
(* Properties of the welcome DM and its fallback (under SpecDM) *)

\* member m's _safe_dm call made at most DM_MAX_RETRIES + 1 attempts, each
\* but the last answered with 40003
BoundedRetries(m) ==
    /\ Len(dm_attempts[m].results) <= DM_MAX_RETRIES + 1
    /\ \A k \in 1..(Len(dm_attempts[m].results) - 1) :
          dm_attempts[m].results[k] = "40003"

\* a step in which member m's call starts a further attempt
Retries(m) ==
    /\ dm_attempts[m].results # <<>>
    /\ Len(dm_attempts'[m].results) = Len(dm_attempts[m].results) + 1

\* a public welcome naming m was attempted
WelcomeAttempted(m) ==
    \E post \in welcome_posts : post.mention = m

\* C21: every join makes at most DM_MAX_RETRIES + 1 DM attempts, retries only
\* after a 40003 and a backoff pause, attempts the public welcome when no DM was
\* delivered, and never ends in an unhandled exception
C21_BoundedRetryThenFallback ==
    \A m \in JoinMembers :
        /\ BoundedRetries(m)
        /\ dmpc[m] # "raised"
        /\ (dmpc[m] = "done" /\ dm_ok[m] = "False") => WelcomeAttempted(m)

\* a retry starts no sooner than DM_BACKOFF_40003 after the attempt before it
\* failed
RetryAfterBackoff ==
    [][\A m \in JoinMembers :
          Retries(m) => now >= dm_attempts[m].failed_at + DM_BACKOFF_40003]_vars

\* C22: at most one DM dispatch is in progress at any time, and whoever
\* dispatches holds _DM_LOCK
C22_OneDispatchUnderLock ==
    /\ Cardinality(Dispatching) <= 1
    /\ \A d \in Dispatching : _DM_LOCK = d

-----------------------------------------------------------------------------
(* Properties of the audit log and of the message texts *)

\* the step called add_roles and the role was not added
AddRolesFailed ==
    /\ add_roles_calls' = add_roles_calls + 1
    /\ member_roles' = member_roles

\* C23: no run of approve, reject or /promote ends in an exception because
\* its audit-log post was refused: unless add_roles itself failed, the
\* handler sends its response
C23_LogFailureNeverAborts ==
    [][((HandlerStep \/ PromoteStep) /\ ~AddRolesFailed)
          => interaction'.kind # "raised"]_vars

\* C24: every message content the pipeline sends is at most MAX_CONTENT
\* characters long, and a content that lost characters ends with the ellipsis
C24_ContentCapped ==
    /\ Len(sent.content) <= MAX_CONTENT
    /\ sent.cut => sent.content[Len(sent.content)] = Ellipsis

-----------------------------------------------------------------------------
(* Properties of /promote's branches (under SpecPromote) *)

\* the run ended before a request was created
EndedWithoutRequest ==
    interaction'.kind \in {"StatsError", "RequirementsNotMet", "NoRankMapping"}

\* C25: a /promote run that ends in a stats-fetch error, in unmet
\* requirements or without a rank mapping posts no card, calls no bridge,
\* changes no role and writes no audit entry
C25_NoRequestNoEffect ==
    [][(PromoteStep /\ EndedWithoutRequest)
          => /\ queue' = queue
             /\ view_store' = view_store
             /\ bridge_posts' = bridge_posts
             /\ add_roles_calls' = add_roles_calls
             /\ member_roles' = member_roles
             /\ log' = log
             /\ acks' = acks]_vars

\* C25 witness: a run with a log channel, a queue channel and a bridge at
\* hand ended on unmet requirements and left everything empty
C25_Witness ==
    /\ interaction.handler = "promote"
    /\ interaction.kind = "RequirementsNotMet"
    /\ log_ch
    /\ queue = <<>>
    /\ log = <<>>
    /\ bridge_posts = <<>>
    /\ add_roles_calls = 0

\* C26: the mode is discord-only or auto-mc and never changes; a discord-only
\* run calls no bridge and changes no role, an auto-mc run posts no card, and
\* no run ends in the unknown-mode branch
C26_ModeSelectsBranch ==
    [][/\ env.mode \in VALID_MODES
       /\ env' = env
       /\ PromoteStep =>
            /\ interaction'.kind # "UnknownMode"
            /\ env.mode = "discord-only" =>
                  /\ bridge_posts' = bridge_posts
                  /\ add_roles_calls' = add_roles_calls
                  /\ member_roles' = member_roles
            /\ env.mode = "auto-mc" =>
                  /\ queue' = queue
                  /\ view_store' = view_store]_vars

\* C26 witness: one run queued a card in discord-only mode without a bridge
\* call, or promoted through the bridge in auto-mc mode without a card
C26_Witness ==
    /\ interaction.handler = "promote"
    /\ \/ /\ env.mode = "discord-only"
          /\ interaction.kind = "Queued"
          /\ queue # <<>>
          /\ bridge_posts = <<>>
          /\ env.bridge_url # None
       \/ /\ env.mode = "auto-mc"
          /\ interaction.kind = "AutoPromoted"
          /\ bridge_posts # <<>>
          /\ queue = <<>>
          /\ cfg.promotion_channel_id # None

-----------------------------------------------------------------------------
(* Properties of the upstream lookups (under SpecFetch) *)

\* C27: a lookup issues each upstream request (identity, profile check,
\* stats) at most once, and a failed lookup of /promote is answered with the
\* upstream error
C27_NoAutomaticRetry ==
    /\ fetch.requests.identity <= 1
    /\ fetch.requests.profiles <= 1
    /\ fetch.requests.stats <= 1
    /\ fetch.reply.kind = "StatsError" =>
          /\ fetch.error # "none"
          /\ fetch.reply.detail = fetch.error

\* the identity provider reported that the username does not exist
ReportedNotFound ==
    /\ fetch.uuid # "pending"
    /\ fetch.provider \in {"status", "empty"}

\* C29: when the identity provider reports that the username does not exist,
\* username_to_uuid returns None without raising, and /ranksync and the
\* verification modal answer with their not-found message
C29_NotFoundReturnsNone ==
    ReportedNotFound =>
        /\ fetch.uuid = "None"
        /\ (fetch.pc = "replied" /\ fetch.caller \in {"ranksync", "verification"})
              => fetch.reply.kind = "NotFound"

-----------------------------------------------------------------------------
(* The bridge request *)

\* a /promote run has posted to the bridge
Posted == bridge_request # NoRequest

\* a bridge token is configured: PROMOTION_BRIDGE_TOKEN is set and not empty
TokenConfigured == env.bridge_token # None /\ env.bridge_token # ""

\* C28: the bridge request is a POST whose JSON body has exactly the keys
\* action, ign, target_rank, requested_by_id, requested_by_tag and guild_id,
\* with action "promote", ign the handle and target_rank the resolved rank;
\* it carries the Authorization: Bearer header exactly when a token is
\* configured; and the run takes it as a success exactly when the response
\* status is in 200..299
C28_BridgeContract ==
    Posted =>
        /\ bridge_request.method = "POST"
        /\ DOMAIN bridge_request.json
              = {"action", "ign", "target_rank", "requested_by_id",
                 "requested_by_tag", "guild_id"}
        /\ bridge_request.json.action = "promote"
        /\ bridge_request.json.ign = interaction.ign
        /\ bridge_request.json.target_rank = interaction.role
        /\ (\E h \in bridge_request.headers : h[1] = "Authorization")
              <=> TokenConfigured
        /\ bridge_request.ok
              <=> (~bridge_request.raised /\ bridge_request.status \in 200..299)

-----------------------------------------------------------------------------
(* The roles an approve changes *)

\* C30: approve changes roles only of the member given by the card message's
\* first mention, and only by adding the one role whose name equals the
\* parsed Target Rank: it adds no other role, removes none, and leaves the
\* roles of every other member, the reviewer's among them, as they were
C30_ApproveAddsOnlyTargetRank ==
    [][(HandlerStep /\ interaction'.handler = "approve")
          => \/ member_roles' = member_roles
             \/ LET msg == queue[interaction'.card]
                IN  /\ msg.mentions # <<>>
                    /\ CardFields(msg).rank.ok
                    /\ member_roles' =
                         [member_roles EXCEPT ![msg.mentions[1]] =
                             @ \cup {CardFields(msg).rank.val}]
       ]_vars

\* C30 witness: a reviewer approved a card that mentions another member; the
\* mentioned member now holds the card's rank and nothing else, the reviewer
\* holds no role
C30_Witness ==
    /\ interaction.handler = "approve"
    /\ interaction.kind = "Approved"
    /\ interaction.user # interaction.target
    /\ queue[interaction.card].mentions[1] = interaction.target
    /\ member_roles[interaction.target] = {interaction.role}
    /\ member_roles[interaction.user] = {}

-----------------------------------------------------------------------------
(* Handlers in flight together *)

AllDone == tasks # <<>> /\ \A t \in 1..InFlight : tasks[t].pc = "done"

\* the orders in which the runs could have been made one after another
Orders ==
    {o \in [1..InFlight -> 1..InFlight] :
        \A a, b \in 1..InFlight : a # b => o[a] # o[b]}

\* the run tk made alone, start to end, on a guild whose members hold `roles`,
\* with the answers the outside gave it: how it ends and the roles it leaves.
\* A /promote run reads nothing another run writes; it writes the mirrored
\* role
Alone(tk, roles) ==
    IF tk.inv.h = "approve"
    THEN LET out == ApproveOutcome(guild, roles, log_ch, queue[tk.inv.card],
                                   tk.inv.p, tk.add, tk.log)
         IN  [kind |-> out.kind,
              roles |-> IF out.granted
                        THEN [roles EXCEPT ![out.target] = @ \cup {out.role}]
                        ELSE roles]
    ELSE IF tk.inv.h = "reject"
    THEN [kind |-> RejectOutcome(log_ch, queue[tk.inv.card], tk.inv.p,
                                 tk.log).kind,
          roles |-> roles]
    ELSE IF env.mode = "auto-mc" /\ tk.rank # <<>>
    THEN LET b == BridgeRequest(tk.inv.user, Who(tk.inv), Steve, tk.rank,
                                tk.bridge, tk.add, tk.log)
         IN  [kind |-> IF b.run.raised THEN "raised"
                       ELSE IF b.ok THEN "AutoPromoted" ELSE "BridgeError",
              roles |-> IF b.granted
                        THEN [roles EXCEPT ![Who(tk.inv)] = @ \cup {tk.rank}]
                        ELSE roles]
    ELSE [kind |-> tk.kind, roles |-> roles]

RECURSIVE RolesBefore(_, _)
\* the roles held when the k-th run of order o starts
RolesBefore(o, k) ==
    IF k = 1 THEN NoRoles
    ELSE Alone(tasks[o[k - 1]], RolesBefore(o, k - 1)).roles

\* both runs approve the same well-formed card, pressed by reviewers who may,
\* and the platform refuses none of their calls
SameCardApprovedTwice ==
    /\ \A t \in 1..InFlight :
          /\ tasks[t].inv.h = "approve"
          /\ tasks[t].inv.card = tasks[1].inv.card
          /\ Authorized(tasks[t].inv.p)
          /\ tasks[t].add = "ok"
          /\ tasks[t].log = "ok"
    /\ Grantable(queue[tasks[1].inv.card])

-----------------------------------------------------------------------------
(* The retry loop of _fetch_json *)

\* the call has ended: it returned or it raised
RetryEnded == retry.pc \in {"returned", "raised"}

\* the requests of the call that failed
FailedRequests == {k \in 1..Len(retry.answers) : retry.answers[k] \notin Returns}

\* C32: _fetch_json with attempts >= 1 issues at most `attempts` requests;
\* it returns the first successful JSON response and issues no request after
\* it; after the i-th failed attempt (i counted from 0) it waits
\* backoff * 2^i; and when every attempt fails it raises the exception of
\* the last attempt
C32_BoundedRetries ==
    /\ retry.requests <= retry.attempts
    /\ retry.requests = Len(retry.answers)
    /\ \A k \in 1..Len(retry.waits) :
          retry.waits[k] = retry.backoff * (2 ^ (k - 1))
    /\ retry.pc \in {"loop", "returned", "raised"}
          => Len(retry.waits) = Cardinality(FailedRequests)
    /\ retry.pc = "returned"
          => /\ retry.answers[retry.requests] \in Returns
             /\ retry.data = retry.answers[retry.requests]
             /\ FailedRequests = 1..(retry.requests - 1)
    /\ retry.pc = "raised"
          => /\ retry.requests = retry.attempts
             /\ FailedRequests = 1..retry.attempts
             /\ retry.last_exc = ExceptionOf(retry.answers[retry.attempts])
    /\ RetryEnded
          => LET unasked == [k \in 1..retry.attempts |->
                                IF k <= Len(retry.answers)
                                THEN retry.answers[k] ELSE "error"]
                 r == _fetch_json(unasked, retry.attempts)
             IN  /\ r.returned = (retry.pc = "returned")
                 /\ r.requests = retry.requests
                 /\ r.data = (IF r.returned THEN retry.data ELSE retry.last_exc)

\* C32 witness: a call with attempts = 3 failed twice with different
\* exceptions, waited backoff and 2 * backoff, and returned the third answer
C32_Witness ==
    /\ retry.pc = "returned"
    /\ retry.attempts = 3
    /\ retry.requests = 3
    /\ retry.answers[1] = "status"
    /\ retry.answers[2] = "error"
    /\ retry.waits = <<retry.backoff, 2 * retry.backoff>>

-----------------------------------------------------------------------------
(* The latest profile *)

\* the selection has been made
Selected == pick.pc \in {"stats", "raised"}

\* C33: for a non-empty list _pick_latest_profile returns a profile whose
\* last_save is maximal, the earliest such on ties, a missing or
\* non-numeric last_save ranking lowest; it returns None only for an empty
\* list, so get_sb_stats fails with 'Could not select latest profile' only
\* when there are no profiles
C33_LatestProfile ==
    Selected =>
        /\ pick.profiles # <<>> =>
              /\ pick.latest \in 1..Len(pick.profiles)
              /\ \A k \in 1..Len(pick.profiles) :
                    /\ TsOf(pick.profiles[k]) <= TsOf(pick.profiles[pick.latest])
                    /\ TsOf(pick.profiles[k]) = TsOf(pick.profiles[pick.latest])
                          => pick.latest <= k
        /\ pick.latest = 0 => pick.profiles = <<>>
        /\ pick.error = "Could not select latest profile"
              => pick.profiles = <<>>

-----------------------------------------------------------------------------
(* /ranksync *)

\* C34: after /ranksync reports success the member holds the role mapped to
\* the Hypixel guild rank and no other role that is a value of the mapping;
\* the roles outside the mapping are as before the command
C34_SyncedRoles ==
    (sync.pc = "done" /\ sync.reply = "Synced") =>
        /\ sync.role = sync.mapping[sync.hyp_rank]
        /\ sync.role \in sync.held
        /\ sync.held \cap MappedRoleIds(sync.mapping) = {sync.role}
        /\ sync.held \ MappedRoleIds(sync.mapping)
              = sync.before \ MappedRoleIds(sync.mapping)

\* C34 witness: a member holding two other mapped roles and an unmapped one
\* was synced: both were removed, the mapped role added, the unmapped kept
C34_Witness ==
    /\ sync.pc = "done"
    /\ sync.reply = "Synced"
    /\ sync.mapping = <<1, 2, 3>>
    /\ sync.before = {1, 3, 4}
    /\ sync.held = {2, 4}

\* C35: when /ranksync reports the permission error, the member's roles are
\* those held before the command: no mapped role has been removed without
\* the new one being added
C35_PermissionErrorChangesNothing ==
    (sync.pc = "done" /\ sync.reply = "CannotEditRoles") =>
        sync.held = sync.before

\* the attempt ended before the nickname and role steps
EndedEarly ==
    verify.reply \in {"MojangError", "NotFound", "HypixelError", "NoLink",
                      "LinkedToAnother"}

\* C36: verification changes the nickname or grants the verified role only
\* when the linked tag, trimmed and casefolded, names the submitting member's
\* own account, and changes nothing when a lookup fails, nothing is linked or
\* the link does not match.
C36_OnlyOwnAccount ==
    verify.pc = "done" =>
        /\ (verify.nick_edited \/ verify.role_granted)
              => Names(verify.linked, UserName, verify.discriminator)
        /\ EndedEarly => ~verify.nick_edited /\ ~verify.role_granted

\* C37: with cooldown_seconds > 0 an attempt made sooner than that after
\* the member's previous attempt makes no lookup and changes no role or
\* nickname, and remaining_cooldown answers 0 exactly when cooldown_seconds
\* <= 0 or at least cooldown_seconds have passed since the stamp.
C37_RateLimited ==
    /\ (verify.pc = "done" /\ verify.attempts >= 2
           /\ verify.cooldown_seconds > 0
           /\ verify.elapsed < verify.cooldown_seconds)
          => /\ verify.lookups = 0
             /\ ~verify.nick_edited
             /\ ~verify.role_granted
    /\ cooldown.pc = "answered"
          => (cooldown.remaining = 0
                <=> \/ cooldown.cooldown_seconds <= 0
                    \/ cooldown.delta >= 4 * cooldown.cooldown_seconds)

\* the messages for the request that the step posted to the queue channel:
\* the card (it carries the view) or the text-only note (a mention and the
\* words); the separate ping is the bare mention
RequestPosted ==
    LET new == Added(queue, queue')
    IN  {k \in 1..Len(new) : new[k].view \/ Len(new[k].content) > 1}

\* C38: in discord-only mode the requester is told that the promotion was
\* queued only if a message for the request was posted to the queue channel:
\* when the card and the text-only note were both refused there is no
\* "queued" response.
C38_QueuedOnlyIfPosted ==
    [][(PromoteStep /\ env.mode = "discord-only"
          /\ interaction'.kind = "Queued")
            => /\ queue' # queue
               /\ RequestPosted # {}]_vars

-----------------------------------------------------------------------------
(* SpecStart: Client.setup_hook loads the command and event modules, and the
   client then dispatches gateway events to the handlers bound to it. *)

\* the gateway events dispatched after startup
MaxDispatches == 3

\* the modules of ./commands and ./events
CommandModules ==
    {"getroles", "ranksync", "setuplogs", "setuppromotions", "sync",
     "verification"}
EventModules == {"on_members_join", "on_ready"}

\* hasattr(module, "setup"): every command module and events/on_ready.py
\* define setup(client); events/on_members_join.py defines _safe_dm and
\* on_member_join at module level and no setup
HasSetup(module) == module # "on_members_join"

\* the events a module's setup binds with @client.event
Binds(module) == IF module = "on_ready" THEN {"on_ready"} ELSE {}

\* class Client defines on_ready itself
ClientMethods == {"on_ready"}

GatewayEvents == {"ready", "member_join"}

StartInit ==
    /\ CardIdle
    /\ EvalIdle
    /\ WorkIdle
    /\ DmIdle
    /\ TextIdle
    /\ FetchIdle
    /\ BesideStartIdle
    /\ startup = [pc |-> "loading", imported |-> {}, loaded |-> {},
                  handlers |-> ClientMethods]
    /\ gateway = <<>>

\* one turn of the loop of setup_hook over the two packages: the module is
\* imported and, if it has one, its setup awaited; a setup that raises is
\* reported and skipped.  os.listdir gives the files of a package in any order
LoadModule(module, setup_result) ==
    /\ startup.pc = "loading"
    /\ module \notin startup.imported
    /\ module \in EventModules => CommandModules \subseteq startup.imported
    /\ LET set_up == HasSetup(module) /\ setup_result = "ok"
       IN  startup' = [startup EXCEPT
                         !.imported = @ \cup {module},
                         !.loaded = IF set_up THEN @ \cup {module} ELSE @,
                         !.handlers = IF set_up THEN @ \cup Binds(module)
                                      ELSE @]
    /\ UNCHANGED <<flowVars, besideStart, gateway>>

\* every module is imported: the command tree is synced (a failure is
\* printed) and setup_hook returns
FinishSetup ==
    /\ startup.pc = "loading"
    /\ startup.imported = CommandModules \cup EventModules
    /\ startup' = [startup EXCEPT !.pc = "running"]
    /\ UNCHANGED <<flowVars, besideStart, gateway>>

\* on_member_join(member) from the DM to the public welcome:
\*   dm_result    how _safe_dm ended: sent, or given up
\*   channel      the verification, log or system channel found, or "None"
\*   send_result  the platform's answer to the welcome post
on_member_join(member, dm_result, channel, send_result) ==
    [event |-> "member_join", member |-> member, handled |-> TRUE,
     dm_attempted |-> TRUE, dm_ok |-> dm_result = "ok",
     welcome |-> dm_result # "ok" /\ channel # "None" /\ send_result = "ok"]

\* Client.dispatch(event): the coroutine bound as on_<event> is scheduled;
\* with none bound the event is dropped
dispatch(event, member, dm_result, channel, send_result) ==
    /\ startup.pc = "running"
    /\ Len(gateway) < MaxDispatches
    /\ LET method == IF event = "ready" THEN "on_ready" ELSE "on_member_join"
           dropped == [event |-> event, member |-> member, handled |-> FALSE,
                       dm_attempted |-> FALSE, dm_ok |-> FALSE,
                       welcome |-> FALSE]
       IN  gateway' = Append(gateway,
                        IF method \notin startup.handlers THEN dropped
                        ELSE IF event = "member_join"
                        THEN on_member_join(member, dm_result, channel,
                                            send_result)
                        ELSE [dropped EXCEPT !.handled = TRUE])
    /\ UNCHANGED <<flowVars, besideStart, startup>>

StartNext ==
    \/ \E module \in CommandModules \cup EventModules,
          setup_result \in {"ok", "raised"} :
            LoadModule(module, setup_result)
    \/ FinishSetup
    \/ \E event \in GatewayEvents, member \in JoinMembers,
          dm_result \in {"ok", "gave up"},
          channel \in {"None", "verification"},
          send_result \in SendResults :
            dispatch(event, member, dm_result, channel, send_result)

SpecStart == StartInit /\ [][StartNext]_vars

\* C39: once setup_hook has completed, every member-join event is handled
\* by on_member_join: the welcome DM is attempted and, when it does not
\* succeed, the public welcome is posted.
C39_JoinsAreWelcomed ==
    \A k \in 1..Len(gateway) :
        gateway[k].event = "member_join" =>
            /\ gateway[k].handled
            /\ gateway[k].dm_attempted
            /\ gateway[k].dm_ok \/ gateway[k].welcome

-----------------------------------------------------------------------------
(* SpecStore: utils/config.py and the commands that write the per-guild
   configuration.  A dict is a record of the keys present and a value for
   every key; a key that is not present carries the value of Blank.  Every
   command writes in the synchronous stretch before its first await, so a
   command that has started has written; commands overlap while they await
   their responses. *)

\* the commands started
MaxCmds == 3

GuildIds == {1, 2}
ChannelIds == {"c1", "c2"}
MapRanks == {"MEMBER", "OFFICER"}
MapRoles == {7, 8}
Cooldowns == {0, 30}

DefaultKeys ==
    {"channel_id", "role_id", "log_channel_id", "cooldown_seconds",
     "rank_role_map"}
Keys == DefaultKeys \cup {"promotion_channel_id"}

\* DEFAULTS of utils/config.py; a mapping is the set of its <<rank, role>>
DEFAULTS ==
    [channel_id |-> None, role_id |-> None, log_channel_id |-> None,
     cooldown_seconds |-> 60, rank_role_map |-> {}]

\* dict.get(key) of a key that is not present
Blank == [k \in Keys |-> IF k \in DefaultKeys THEN DEFAULTS[k] ELSE None]

\* the empty dict, and the dict {key: value}
NoEntry == [present |-> {}, val |-> Blank]
Entry(key, value) == [present |-> {key}, val |-> [Blank EXCEPT ![key] = value]]

\* d.update(updates)
Update(d, updates) ==
    [present |-> d.present \cup updates.present,
     val |-> [k \in Keys |-> IF k \in updates.present THEN updates.val[k]
                             ELSE d.val[k]]]

\* for k, v in DEFAULTS.items(): g.setdefault(k, v)
SetDefaults(g) ==
    [present |-> g.present \cup DefaultKeys,
     val |-> [k \in Keys |-> IF k \in g.present THEN g.val[k] ELSE Blank[k]]]

\* get_guild_cfg(guild_id) on the file `data`
get_guild_cfg(data, guild_id) == SetDefaults(data[guild_id])

\* set_guild_cfg(guild_id, **updates) on the file `data`: the file it writes
set_guild_cfg(data, guild_id, updates) ==
    [data EXCEPT ![guild_id] = SetDefaults(Update(data[guild_id], updates))]

\* mapping[rank] = role, mapping.pop(rank), and mapping.get(rank) with 0 for
\* a rank that is not mapped
WithRank(mapping, rank, role) ==
    {p \in mapping : p[1] # rank} \cup {<<rank, role>>}
WithoutRank(mapping, rank) == {p \in mapping : p[1] # rank}
RoleOf(mapping, rank) ==
    IF \E p \in mapping : p[1] = rank
    THEN (CHOOSE p \in mapping : p[1] = rank)[2]
    ELSE 0

\* guild_config.json before the first command: no file; an entry written by
\* earlier commands; an entry that holds only some keys
InitialConfigs ==
    {[g \in GuildIds |-> NoEntry],
     [g \in GuildIds |->
        IF g = 1
        THEN SetDefaults(Update(Entry("log_channel_id", "c1"),
                                Entry("rank_role_map", {<<"MEMBER", 7>>})))
        ELSE NoEntry],
     [g \in GuildIds |->
        IF g = 1 THEN NoEntry ELSE Entry("promotion_channel_id", "c2")]}

StoreInit ==
    /\ CardIdle
    /\ EvalIdle
    /\ WorkIdle
    /\ DmIdle
    /\ TextIdle
    /\ FetchIdle
    /\ BesideStoreIdle
    /\ guild_config \in InitialConfigs
    /\ initial_config = guild_config
    /\ cmds = <<>>
    /\ applied = <<>>

\* a command starts, writes `data` and goes on to await its response;
\* `updates` are the writes it made, each naming guild, key and (for the
\* mapping) rank
Wrote(name, guild_id, data, updates) ==
    /\ Len(cmds) < MaxCmds
    /\ guild_config' = data
    /\ cmds' = Append(cmds, [name |-> name, guild |-> guild_id,
                             pc |-> "responding"])
    /\ applied' = applied \o updates
    /\ UNCHANGED <<flowVars, besideStore, initial_config>>

\* /setuplogs channel
setuplogs(guild_id, channel) ==
    Wrote("setuplogs", guild_id,
          set_guild_cfg(guild_config, guild_id, Entry("log_channel_id", channel)),
          <<[guild |-> guild_id, key |-> "log_channel_id", rank |-> "",
             value |-> channel]>>)

\* /setuppromotions channel
setuppromotions(guild_id, channel) ==
    Wrote("setuppromotions", guild_id,
          set_guild_cfg(guild_config, guild_id,
                        Entry("promotion_channel_id", channel)),
          <<[guild |-> guild_id, key |-> "promotion_channel_id", rank |-> "",
             value |-> channel]>>)

\* /verification_settings [log_channel] [cooldown_seconds]; log_channel None
\* and given = FALSE stand for the options left out
verification_settings(guild_id, log_channel, given, cooldown_seconds) ==
    LET u1 == IF log_channel # None
              THEN Entry("log_channel_id", log_channel) ELSE NoEntry
        updates == IF given
                   THEN Update(u1, Entry("cooldown_seconds", cooldown_seconds))
                   ELSE u1
        w1 == IF log_channel # None
              THEN <<[guild |-> guild_id, key |-> "log_channel_id",
                      rank |-> "", value |-> log_channel]>>
              ELSE <<>>
        w2 == IF given
              THEN <<[guild |-> guild_id, key |-> "cooldown_seconds",
                      rank |-> "", value |-> cooldown_seconds]>>
              ELSE <<>>
    IN  Wrote("verification_settings", guild_id,
              IF updates.present # {}
              THEN set_guild_cfg(guild_config, guild_id, updates)
              ELSE guild_config,
              w1 \o w2)

\* variant: the mapping is the one read when the bot started
ranksync_map_staleRead(guild_id, hyp_rank, role) ==
    LET gcfg == get_guild_cfg(initial_config, guild_id)
        mapping == WithRank(gcfg.val["rank_role_map"], hyp_rank, role)
    IN  Wrote("ranksync_map", guild_id,
              set_guild_cfg(guild_config, guild_id,
                            Entry("rank_role_map", mapping)),
              <<[guild |-> guild_id, key |-> "rank_role_map",
                 rank |-> hyp_rank, value |-> role]>>)

\* /ranksync_map rank role
ranksync_map(guild_id, hyp_rank, role) ==
    LET gcfg == get_guild_cfg(guild_config, guild_id)
        mapping == WithRank(gcfg.val["rank_role_map"], hyp_rank, role)
    IN  Wrote("ranksync_map", guild_id,
              set_guild_cfg(guild_config, guild_id,
                            Entry("rank_role_map", mapping)),
              <<[guild |-> guild_id, key |-> "rank_role_map",
                 rank |-> hyp_rank, value |-> role]>>)

\* /ranksync_clear rank: writes only when the rank is mapped
ranksync_clear(guild_id, hyp_rank) ==
    LET gcfg == get_guild_cfg(guild_config, guild_id)
        mapping == gcfg.val["rank_role_map"]
    IN  IF RoleOf(mapping, hyp_rank) # 0
        THEN Wrote("ranksync_clear", guild_id,
                   set_guild_cfg(guild_config, guild_id,
                                 Entry("rank_role_map",
                                       WithoutRank(mapping, hyp_rank))),
                   <<[guild |-> guild_id, key |-> "rank_role_map",
                      rank |-> hyp_rank, value |-> 0]>>)
        ELSE Wrote("ranksync_clear", guild_id, guild_config, <<>>)

\* interaction.response.send_message returns: the command is over
Responded(i) ==
    /\ i \in 1..Len(cmds)
    /\ cmds[i].pc = "responding"
    /\ cmds' = [cmds EXCEPT ![i].pc = "done"]
    /\ UNCHANGED <<flowVars, besideStore, guild_config, initial_config, applied>>

StoreNext ==
    \/ \E g \in GuildIds, channel \in ChannelIds : setuplogs(g, channel)
    \/ \E g \in GuildIds, channel \in ChannelIds : setuppromotions(g, channel)
    \/ \E g \in GuildIds, log_channel \in ChannelIds \cup {None},
          given \in BOOLEAN :
         \E cooldown_seconds \in IF given THEN Cooldowns ELSE {0} :
            verification_settings(g, log_channel, given, cooldown_seconds)
    \/ \E g \in GuildIds, hyp_rank \in MapRanks, role \in MapRoles :
            ranksync_map(g, hyp_rank, role)
    \/ \E g \in GuildIds, hyp_rank \in MapRanks : ranksync_clear(g, hyp_rank)
    \/ \E i \in 1..Len(cmds) : Responded(i)

SpecStore == StoreInit /\ [][StoreNext]_vars

\* the updates made to key `k` of guild `g` (to rank `r` of its mapping)
UpdatesTo(g, k, r) ==
    SelectSeq(applied, LAMBDA u : u.guild = g /\ u.key = k /\ u.rank = r)

\* what the configuration of guild g holds under key k
Held(data, g, k) == get_guild_cfg(data, g).val[k]

\* C40: however the configuration commands overlap, the persisted
\* configuration holds for each guild and key the value of the last update
\* to it, every key and guild no update names holds what it held before, and
\* get_guild_cfg returns every default key.
C40_NoLostUpdate ==
    \A g \in GuildIds :
        /\ \A k \in Keys \ {"rank_role_map"} :
              LET us == UpdatesTo(g, k, "")
              IN  Held(guild_config, g, k) =
                     IF us # <<>> THEN us[Len(us)].value
                     ELSE Held(initial_config, g, k)
        /\ \A r \in MapRanks :
              LET us == UpdatesTo(g, "rank_role_map", r)
              IN  RoleOf(Held(guild_config, g, "rank_role_map"), r) =
                     IF us # <<>> THEN us[Len(us)].value
                     ELSE RoleOf(Held(initial_config, g, "rank_role_map"), r)
        /\ DefaultKeys \subseteq get_guild_cfg(guild_config, g).present
        /\ (\A n \in 1..Len(applied) : applied[n].guild # g)
              => guild_config[g] = initial_config[g]

\* two /ranksync_map commands for different ranks of one guild await their
\* responses together, a third command wrote to the other guild, and both
\* ranks are mapped
C40_Witness ==
    /\ Len(cmds) = 3
    /\ \E i, j \in 1..3 :
          /\ i # j
          /\ cmds[i].name = "ranksync_map" /\ cmds[j].name = "ranksync_map"
          /\ cmds[i].guild = 1 /\ cmds[j].guild = 1
          /\ cmds[i].pc = "responding" /\ cmds[j].pc = "responding"
    /\ \E k \in 1..3 : cmds[k].guild = 2 /\ cmds[k].name = "setuplogs"
    /\ RoleOf(Held(guild_config, 1, "rank_role_map"), "MEMBER") = 7
    /\ RoleOf(Held(guild_config, 1, "rank_role_map"), "OFFICER") = 8
    /\ Len(UpdatesTo(1, "rank_role_map", "OFFICER")) = 1
    /\ Len(UpdatesTo(1, "rank_role_map", "MEMBER")) = 1
    /\ Held(guild_config, 2, "log_channel_id") = "c2"

=============================================================================
